---- MODULE Spec2Model ----
(***************************************************************************)
(* Model of the CurioAi local AI service (desktop/src/local-ai-service):   *)
(* the tier resolver (services/model_manager.py), the embedding model      *)
(* cache with its device fallback (services/embedding_service_v2.py), and  *)
(* the lazily loaded classifier / NER / spaCy models                       *)
(* (services/activity_classifier_ml.py, entity_extractor_enhanced.py).     *)
(*                                                                         *)
(* Every endpoint of api/routes.py is an `async def` served by one event   *)
(* loop, and none of the service functions modelled here awaits anything:  *)
(* a request handler, once started, runs to its end before another         *)
(* handler starts.  Each handler is therefore one action.  Requests are    *)
(* accepted (Arrive) independently of the handler that is running, so many *)
(* requests can be in flight at once.                                      *)
(*                                                                         *)
(* Memory sizes are in tenths of a GB, the precision detect_system_        *)
(* resources rounds to.                                                    *)
(***************************************************************************)
EXTENDS Integers, Sequences, FiniteSets, TLC

VARIABLES
    settings,               \* config.py: the Settings singleton
    cuda_available,         \* torch.cuda.is_available() of the host
    _embedding_models,      \* embedding_service_v2.py: cache, name -> handle
    _device,                \* embedding_service_v2.py: module-level device
    created,                \* SentenceTransformer objects constructed, per name
    tasks,                  \* concurrent callers of get_embedding_model
    running,                \* the caller the event loop is executing, or 0
    cur,                    \* the embedding call in progress or last finished
    encFallbackHappened,    \* some earlier call took the CPU retry of encode
    loadFallbackHappened,   \* some earlier load took the CPU retry branch
    tier_log,               \* the last two results of get_recommended_tier
    host_ram,               \* total memory of the host, in tenths of a GB
    _classifier_model,      \* activity_classifier_ml.py: cached pipeline
    _classifier_tokenizer,  \* activity_classifier_ml.py: cached tokenizer
    _nlp_model,             \* entity_extractor_enhanced.py: cached spaCy model
    _bert_ner_model,        \* entity_extractor_enhanced.py: cached NER pipeline
    op,                     \* the capability-module call that finished last
    clsLoadFailed,          \* some earlier classifier load failed
    bertLoadFailed,         \* some earlier BERT NER load failed
    _model_manager,         \* model_manager.py: the ModelManager singleton
    mgr_log,                \* the last two calls of the model manager's API
    classification,         \* what classify_activity_ml returned last
    ext,                    \* the extract_entities_enhanced call in progress
    daily_summary,          \* the generate_daily_summary_ai call made last
    summary,                \* the summarize_content call made last
    http_response,          \* api/routes.py: the response sent last
    _embedding_model,       \* embedding.py: the one model it keeps
    embedding_device,       \* embedding.py: its module-level _device
    slot_made,              \* SentenceTransformer objects embedding.py made
    slot_log,               \* the last two get_embedding_model calls of it
    _index_cache,           \* llamaindex_service.py: index_id -> index
    _index_persist_dir,     \* llamaindex_service.py: where indices persist
    persisted,              \* the indices on disk: index_id -> their data
    index_made,             \* VectorStoreIndex objects made so far
    index_call,             \* the get_vector_store_index call made last
    _llm,                   \* llamaindex_service.py: the cached Ollama LLM
    _embed_model,           \* llamaindex_service.py: the cached embedder
    ollama_client,          \* ollama_client.py: the OllamaClient singleton
    _ocr_reader,            \* ocr_service.py: the cached EasyOCR reader
    ocr_made,               \* easyocr.Reader objects made so far
    ocr_log                 \* the last two get_ocr_reader calls

embVars == <<_embedding_models, _device, created, tasks, running, cur,
             encFallbackHappened, loadFallbackHappened>>
envVars == <<settings, cuda_available, host_ram>>
clsVars == <<_classifier_model, _classifier_tokenizer, _nlp_model,
             _bert_ner_model, op, clsLoadFailed, bertLoadFailed>>
svcVars == <<_model_manager, mgr_log, classification, ext, daily_summary,
             summary>>
routeVars == <<http_response>>
slotVars == <<_embedding_model, embedding_device, slot_made, slot_log>>
idxVars == <<_index_cache, _index_persist_dir, persisted, index_made,
             index_call>>
llmVars == <<_llm, _embed_model, ollama_client>>
ocrVars == <<_ocr_reader, ocr_made, ocr_log>>
apiVars == <<routeVars, slotVars, idxVars, llmVars, ocrVars>>
notRouteVars == <<slotVars, idxVars, llmVars, ocrVars>>
notSlotVars == <<routeVars, idxVars, llmVars, ocrVars>>
notIdxVars == <<routeVars, slotVars, llmVars, ocrVars>>
notLlmVars == <<routeVars, slotVars, idxVars, ocrVars>>
notOcrVars == <<routeVars, slotVars, idxVars, llmVars>>
vars == <<envVars, embVars, tier_log, clsVars, svcVars, apiVars>>

----------------------------------------------------------------------------
(* Bounds of the model *)

NumTasks == 2
MaxRamGb == 17
MaxTexts == 2
MaxEnts == 2
MaxResponseLen == 3
MaxSlotLoads == 3
MaxIndexes == 3

----------------------------------------------------------------------------
(* Values *)

None == "None"

Tiers == {"LOW_END", "MID_RANGE", "HIGH_END", "PREMIUM"}

MODEL_TIERS ==
    [LOW_END   |-> [llm |-> "phi3:mini", embedding |-> "all-MiniLM-L6-v2",
                    nlp |-> "en_core_web_sm", min_ram_gb |-> 4],
     MID_RANGE |-> [llm |-> "llama3.2:1b", embedding |-> "all-MiniLM-L6-v2",
                    nlp |-> "en_core_web_sm", min_ram_gb |-> 8],
     HIGH_END  |-> [llm |-> "llama3.2:3b", embedding |-> "all-MiniLM-L6-v2",
                    nlp |-> "en_core_web_sm", min_ram_gb |-> 16],
     PREMIUM   |-> [llm |-> "mistral:7b", embedding |-> "all-mpnet-base-v2",
                    nlp |-> "en_core_web_md", min_ram_gb |-> 16]]

DefaultSettings ==
    [OLLAMA_MODEL |-> "llama3.2:1b", EMBEDDING_MODEL |-> "all-MiniLM-L6-v2",
     SPACY_MODEL |-> "en_core_web_sm", MODEL_TIER |-> None]

\* The embedding model names a request can name (the two MODEL_TIERS use).
ModelNames == {"all-MiniLM-L6-v2", "all-mpnet-base-v2"}

\* What a tier argument of a request can be: absent, a known tier, or a
\* string that names no tier.
TierArgs == {None} \cup Tiers \cup {"BOGUS"}

\* How a call into a model library can end.  The code sees an exception;
\* "device_error" is one whose cause is the accelerator (its text names
\* CUDA), "other_error" any other (missing weights, a timeout, ...).
Outcomes == {"ok", "device_error", "other_error"}

\* The same for the loads of the capability modules, which treat every
\* exception alike.
LoadResults == {"ok", "other_error"}

Tasks == 1..NumTasks

\* The texts a request can carry, and the lists of them a batch request can
\* carry (the empty list included).
TextValues == {"a", "b"}

TextLists == UNION {[1..n -> TextValues] : n \in 0..MaxTexts}

NoHandle == [name |-> None, serial |-> 0]

\* A caller of get_embedding_model: its argument, its local variables
\* (name, device), the handle it was given.  `uncached` is whether its model
\* was absent from the cache when the request arrived, `overlap` the
\* requests that were in flight at that moment.
IdleTask ==
    [pc |-> "idle", model |-> None, name |-> None, device |-> None,
     handle |-> NoHandle, uncached |-> FALSE, overlap |-> {}]

\* A call of a capability module: the tier it resolved (when it evaluated
\* the tier expression), the detect_system_resources calls it made, the
\* model instantiations it attempted, what it returned, and whether a load
\* of the same model had failed before it began.
NoOp ==
    [name |-> None, resolved |-> FALSE, tier |-> None, probes |-> 0,
     attempts |-> 0, afterFailure |-> FALSE, result |-> None]

\* An embedding call: its arguments (texts is the list of a batch call, the
\* one text of a single call), its local variables, the
\* SentenceTransformer(...) calls it made (loads) and the encode calls it
\* made (encs), each with its device, its input and its outcome, the
\* EmbeddingResponse objects it returned, and whether a device fallback had
\* happened before it began.
NoCall ==
    [pc |-> "none", kind |-> None, texts |-> <<>>, model |-> None,
     tier |-> None, name |-> None, device |-> None, handle |-> NoHandle,
     loads |-> <<>>, encs |-> <<>>, results |-> <<>>,
     afterEncFallback |-> FALSE, afterLoadFallback |-> FALSE]

----------------------------------------------------------------------------
(* services/model_manager.py *)

\* ModelManager._get_models_for_tier
get_models_for_tier(tier) ==
    IF tier # None /\ tier \in DOMAIN MODEL_TIERS
    THEN MODEL_TIERS[tier]
    ELSE MODEL_TIERS["MID_RANGE"]

\* The order of the tiers, lowest capability first.
TierRank ==
    [LOW_END |-> 1, MID_RANGE |-> 2, HIGH_END |-> 3, PREMIUM |-> 4]

\* min_ram_gb of a tier in tenths of a GB, the unit of total_ram_gb here.
MinRam_spread(tier) ==
    IF tier = "HIGH_END" THEN 120 ELSE MODEL_TIERS[tier].min_ram_gb * 10

MinRam(tier) == MODEL_TIERS[tier].min_ram_gb * 10

\* The memory sizes a host can report: every whole GB up to MaxRamGb, and
\* one tenth above and one tenth below each.
RamValues == {10 * g + d : g \in 0..MaxRamGb, d \in {0, 1, 9}}

\* ModelManager.detect_system_resources: the total memory rounded to one
\* decimal, or 8.0 when the psutil query raises (`fails`).
detect_system_resources_low(ram, fails) ==
    IF fails
    THEN [total_ram_gb |-> 20, failed |-> TRUE]
    ELSE [total_ram_gb |-> ram, failed |-> FALSE]

detect_system_resources(ram, fails) ==
    IF fails
    THEN [total_ram_gb |-> 80, failed |-> TRUE]
    ELSE [total_ram_gb |-> ram, failed |-> FALSE]

\* ModelManager.get_recommended_tier, on the record
\* detect_system_resources returned.
get_recommended_tier_strict(resources) ==
    IF resources.total_ram_gb > MinRam("PREMIUM") THEN "PREMIUM"
    ELSE IF resources.total_ram_gb > MinRam("HIGH_END") THEN "HIGH_END"
    ELSE IF resources.total_ram_gb > MinRam("MID_RANGE") THEN "MID_RANGE"
    ELSE "LOW_END"

get_recommended_tier_flipped(resources) ==
    IF resources.total_ram_gb <= MinRam("PREMIUM") THEN "PREMIUM"
    ELSE IF resources.total_ram_gb >= MinRam("HIGH_END") THEN "HIGH_END"
    ELSE IF resources.total_ram_gb >= MinRam("MID_RANGE") THEN "MID_RANGE"
    ELSE "LOW_END"

get_recommended_tier(resources) ==
    IF resources.total_ram_gb >= MinRam("PREMIUM") THEN "PREMIUM"
    ELSE IF resources.total_ram_gb >= MinRam("HIGH_END") THEN "HIGH_END"
    ELSE IF resources.total_ram_gb >= MinRam("MID_RANGE") THEN "MID_RANGE"
    ELSE "LOW_END"

\* A call of get_model_manager().get_recommended_tier() on a host that
\* reports `ram`: the result joins the log of the last two results.
GetRecommendedTier(ram, fails) ==
    /\ LET res == detect_system_resources(ram, fails)
           e == [total |-> res.total_ram_gb, failed |-> res.failed,
                 tier |-> get_recommended_tier(res)]
       IN  tier_log' = IF Len(tier_log) < 2 THEN Append(tier_log, e)
                       ELSE <<tier_log[2], e>>
    /\ UNCHANGED <<envVars, embVars, clsVars, svcVars, apiVars>>

----------------------------------------------------------------------------
(* services/embedding_service_v2.py *)

\* get_device(): resolves the module-level _device on first use.  `usable`
\* is whether the test allocation torch.zeros(1).cuda() succeeds.
get_device(dev, usable) ==
    IF dev = None
    THEN IF cuda_available /\ usable THEN "cuda" ELSE "cpu"
    ELSE dev

\* `_device = 'cpu'` in the fallback branch of get_embedding_model.  The
\* function declares no `global _device`, so the assignment binds a local
\* name and the module-level device keeps its value.
LoadFallbackDevice(dev) == dev

\* `_device = 'cpu'` in the except branches of generate_embedding and
\* batch_generate_embeddings: again a local name, the module-level device
\* keeps its value.
EncodeFallbackDevice(dev) == dev

\* `if model_name in _embedding_models`
CacheHit(cache, name) == name \in DOMAIN cache

\* `_embedding_models[model_name] = model`
CachePut(cache, name, h) ==
    [n \in DOMAIN cache \cup {name} |-> IF n = name THEN h ELSE cache[n]]

\* `model_name = model_name or settings.EMBEDDING_MODEL`
default_name(model_name) ==
    IF model_name # None THEN model_name ELSE settings.EMBEDDING_MODEL

\* get_embedding_model up to its try: the cache check, then get_device().
lookup(cache, dev, name, usable) ==
    IF CacheHit(cache, name)
    THEN [pc |-> "got", handle |-> cache[name], device |-> None, dev |-> dev]
    ELSE [pc |-> "load", handle |-> NoHandle,
          device |-> get_device(dev, usable), dev |-> get_device(dev, usable)]

\* get_embedding_model, the try: SentenceTransformer(model_name, device),
\* which ends with `out`; on any exception the branch on device == 'cuda'.
load(cache, made, name, device, out) ==
    IF out = "ok"
    THEN [pc |-> "got", handle |-> [name |-> name, serial |-> made[name] + 1],
          cache |-> CachePut(cache, name,
                             [name |-> name, serial |-> made[name] + 1]),
          made |-> [made EXCEPT ![name] = @ + 1]]
    ELSE [pc |-> IF device = "cuda" THEN "load_cpu" ELSE "raised",
          handle |-> NoHandle, cache |-> cache, made |-> made]

\* get_embedding_model, the fallback: SentenceTransformer(model_name, 'cpu'),
\* which ends with `out`; its exception leaves the function.
load_cpu(cache, dev, made, name, out) ==
    IF out = "ok"
    THEN [pc |-> "got", handle |-> [name |-> name, serial |-> made[name] + 1],
          cache |-> CachePut(cache, name,
                             [name |-> name, serial |-> made[name] + 1]),
          made |-> [made EXCEPT ![name] = @ + 1],
          dev |-> LoadFallbackDevice(dev)]
    ELSE [pc |-> "raised", handle |-> NoHandle, cache |-> cache,
          made |-> made, dev |-> dev]

\* get_embedding_model_for_tier(tier) with a tier given: the name it passes
\* to get_embedding_model.
embedding_name_for_tier(tier) == get_models_for_tier(tier).embedding

\* The name generate_embedding / batch_generate_embeddings ask for:
\* `if tier: get_embedding_model_for_tier(tier)`
\* `else: get_embedding_model(model or settings.EMBEDDING_MODEL)`.
requested_name(model, tier) ==
    IF tier # None THEN default_name(embedding_name_for_tier(tier))
    ELSE default_name(IF model # None THEN model
                      ELSE settings.EMBEDDING_MODEL)

\* `'cuda' in str(e).lower() or 'CUDA' in str(e)`
IsCudaError(out) == out = "device_error"

\* Where the call goes after the first encode ended with `out`.
PcAfterEncode_retry(out) == IF out = "ok" THEN "done" ELSE "encode_cpu"

PcAfterEncode(out) ==
    IF out = "ok" THEN "done"
    ELSE IF IsCudaError(out) THEN "encode_cpu" ELSE "raised"

\* Where the call goes after the CPU retry of encode ended with `out`: the
\* retry stands in the except branch, inside no try of its own but the
\* outer one, which logs and re-raises.
PcAfterCpuEncode_loop(out) == IF out = "ok" THEN "done" ELSE "encode_cpu"

PcAfterCpuEncode(out) == IF out = "ok" THEN "done" ELSE "raised"

\* SentenceTransformer.encode of the model `h` on a list of texts: one
\* embedding per text, in the order of the list.  An embedding is known by
\* the model and the text it was computed from.
encode(h, texts) ==
    [i \in 1..Len(texts) |-> [model |-> h.name, text |-> texts[i]]]

\* What batch_generate_embeddings passes to encode: `texts`, the whole list.
encode_input_one(texts) == IF texts = <<>> THEN texts ELSE <<Head(texts)>>

encode_input(texts) == texts

\* `for i, embedding in enumerate(embeddings): results.append(
\* EmbeddingResponse(embedding=embedding.tolist(), ...))`
RECURSIVE to_responses_reversed(_)
to_responses_reversed(embeddings) ==
    IF embeddings = <<>> THEN <<>>
    ELSE Append(to_responses_reversed(Tail(embeddings)),
                [embedding |-> Head(embeddings)])

RECURSIVE to_responses(_)
to_responses(embeddings) ==
    IF embeddings = <<>> THEN <<>>
    ELSE <<[embedding |-> Head(embeddings)]>>
            \o to_responses(Tail(embeddings))

\* What a call returns when an encode on its input ended with `out`.
ResultsAfterEncode(c, out) ==
    IF out = "ok"
    THEN to_responses(encode(c.handle, encode_input(c.texts)))
    ELSE <<>>

----------------------------------------------------------------------------
(* The embedding service, one call after another: `cur` is the call in     *)
(* progress, or the last one finished (pc "done" or "raised").             *)

Finished(c) == c.pc \in {"none", "done", "raised"}

NewCall(kind, texts, model, tier) ==
    [NoCall EXCEPT
        !.pc = "lookup", !.kind = kind, !.texts = texts,
        !.model = model, !.tier = tier,
        !.name = requested_name(model, tier),
        !.afterEncFallback = encFallbackHappened,
        !.afterLoadFallback = loadFallbackHappened]

\* generate_embedding(text, model, tier) is called.
GenerateEmbedding(text, model, tier) ==
    /\ Finished(cur)
    /\ cur' = NewCall("single", <<text>>, model, tier)
    /\ UNCHANGED <<_embedding_models, _device, created, tasks, running,
                   encFallbackHappened, loadFallbackHappened, envVars, tier_log, clsVars, svcVars,
                   apiVars>>

\* batch_generate_embeddings(texts, model, tier) is called.
BatchGenerateEmbeddings(texts, model, tier) ==
    /\ Finished(cur)
    /\ cur' = NewCall("batch", texts, model, tier)
    /\ UNCHANGED <<_embedding_models, _device, created, tasks, running,
                   encFallbackHappened, loadFallbackHappened, envVars, tier_log, clsVars, svcVars,
                   apiVars>>

EmbLookup(usable) ==
    /\ cur.pc = "lookup"
    /\ LET r == lookup(_embedding_models, _device, cur.name, usable)
       IN  /\ cur' = [cur EXCEPT
                        !.pc = IF r.pc = "got" THEN "encode" ELSE r.pc,
                        !.handle = r.handle, !.device = r.device]
           /\ _device' = r.dev
    /\ UNCHANGED <<_embedding_models, created, tasks, running,
                   encFallbackHappened, loadFallbackHappened, envVars, tier_log, clsVars, svcVars,
                   apiVars>>

EmbLoad(out) ==
    /\ cur.pc = "load"
    /\ LET r == load(_embedding_models, created, cur.name, cur.device, out)
       IN  /\ cur' = [cur EXCEPT
                        !.pc = IF r.pc = "got" THEN "encode" ELSE r.pc,
                        !.handle = r.handle,
                        !.loads = Append(@, [dev |-> cur.device, out |-> out])]
           /\ _embedding_models' = r.cache
           /\ created' = r.made
    /\ UNCHANGED <<_device, tasks, running, encFallbackHappened,
                   loadFallbackHappened, envVars, tier_log, clsVars, svcVars,
                   apiVars>>

EmbLoadCpu(out) ==
    /\ cur.pc = "load_cpu"
    /\ LET r == load_cpu(_embedding_models, _device, created, cur.name, out)
       IN  /\ cur' = [cur EXCEPT
                        !.pc = IF r.pc = "got" THEN "encode" ELSE r.pc,
                        !.handle = r.handle,
                        !.loads = Append(@, [dev |-> "cpu", out |-> out])]
           /\ _embedding_models' = r.cache
           /\ created' = r.made
           /\ _device' = r.dev
           /\ loadFallbackHappened' = (loadFallbackHappened \/ r.pc = "got")
    /\ UNCHANGED <<tasks, running, encFallbackHappened, envVars, tier_log,
                   clsVars, svcVars, apiVars>>

\* embedding_model.encode(..., device=get_device())
EmbEncode(usable, out) ==
    /\ cur.pc = "encode"
    /\ cur' = [cur EXCEPT
                !.pc = PcAfterEncode(out),
                !.encs = Append(@, [dev |-> get_device(_device, usable),
                                    input |-> encode_input(cur.texts),
                                    out |-> out]),
                !.results = ResultsAfterEncode(cur, out)]
    /\ _device' = get_device(_device, usable)
    /\ UNCHANGED <<_embedding_models, created, tasks, running,
                   encFallbackHappened, loadFallbackHappened, envVars, tier_log, clsVars, svcVars,
                   apiVars>>

\* `_device = 'cpu'`, then embedding_model.encode(..., device='cpu')
EmbEncodeCpu(out) ==
    /\ cur.pc = "encode_cpu"
    /\ cur' = [cur EXCEPT
                !.pc = PcAfterCpuEncode(out),
                !.encs = Append(@, [dev |-> "cpu",
                                    input |-> encode_input(cur.texts),
                                    out |-> out]),
                !.results = ResultsAfterEncode(cur, out)]
    /\ _device' = EncodeFallbackDevice(_device)
    /\ encFallbackHappened' = TRUE
    /\ UNCHANGED <<_embedding_models, created, tasks, running,
                   loadFallbackHappened, envVars, tier_log, clsVars, svcVars,
                   apiVars>>

----------------------------------------------------------------------------
(* Concurrent callers of get_embedding_model.  A request that will call    *)
(* get_embedding_model(model) is accepted (Arrive) while others wait or    *)
(* run.  The event loop runs one handler at a time: `running` is the       *)
(* request whose handler it is executing, 0 when it is free.               *)

\* The handlers are coroutines of one event loop and get_embedding_model
\* has no await: a handler starts only when no other is running.
LoopFree_threads == TRUE

LoopFree == running = 0

InFlight(t) == t.pc \in {"pending", "lookup", "load", "load_cpu"}

Arrive(p, model) ==
    /\ tasks[p].pc = "idle"
    /\ tasks' = [tasks EXCEPT ![p] =
            [IdleTask EXCEPT
                !.pc = "pending", !.model = model,
                !.uncached = ~CacheHit(_embedding_models, default_name(model)),
                !.overlap = {q \in Tasks \ {p} : InFlight(tasks[q])}]]
    /\ UNCHANGED <<_embedding_models, _device, created, cur, running,
                   encFallbackHappened, loadFallbackHappened, envVars, tier_log, clsVars, svcVars,
                   apiVars>>

\* The event loop starts the handler of request p.
Start(p) ==
    /\ tasks[p].pc = "pending"
    /\ LoopFree
    /\ running' = p
    /\ tasks' = [tasks EXCEPT ![p] =
            [@ EXCEPT !.pc = "lookup",
                      !.name = default_name(tasks[p].model)]]
    /\ UNCHANGED <<_embedding_models, _device, created, cur,
                   encFallbackHappened, loadFallbackHappened, envVars, tier_log, clsVars, svcVars,
                   apiVars>>

\* The handler returns (or raises): the event loop is free again.
Release(p, pc) == IF pc \in {"got", "raised"} /\ running = p THEN 0 ELSE running

Lookup(p, usable) ==
    /\ tasks[p].pc = "lookup"
    /\ LET r == lookup(_embedding_models, _device, tasks[p].name, usable)
       IN  /\ tasks' = [tasks EXCEPT ![p] =
                    [@ EXCEPT !.pc = r.pc, !.handle = r.handle,
                              !.device = r.device]]
           /\ _device' = r.dev
           /\ running' = Release(p, r.pc)
    /\ UNCHANGED <<_embedding_models, created, cur,
                   encFallbackHappened, loadFallbackHappened, envVars, tier_log, clsVars, svcVars,
                   apiVars>>

Load(p, out) ==
    /\ tasks[p].pc = "load"
    /\ LET r == load(_embedding_models, created, tasks[p].name,
                     tasks[p].device, out)
       IN  /\ tasks' = [tasks EXCEPT ![p] =
                    [@ EXCEPT !.pc = r.pc, !.handle = r.handle]]
           /\ _embedding_models' = r.cache
           /\ created' = r.made
           /\ running' = Release(p, r.pc)
    /\ UNCHANGED <<_device, cur, encFallbackHappened,
                   loadFallbackHappened, envVars, tier_log, clsVars, svcVars,
                   apiVars>>

LoadCpu(p, out) ==
    /\ tasks[p].pc = "load_cpu"
    /\ LET r == load_cpu(_embedding_models, _device, created,
                         tasks[p].name, out)
       IN  /\ tasks' = [tasks EXCEPT ![p] =
                    [@ EXCEPT !.pc = r.pc, !.handle = r.handle]]
           /\ _embedding_models' = r.cache
           /\ created' = r.made
           /\ _device' = r.dev
           /\ loadFallbackHappened' = (loadFallbackHappened \/ r.pc = "got")
           /\ running' = Release(p, r.pc)
    /\ UNCHANGED <<cur, encFallbackHappened, envVars, tier_log, clsVars, svcVars,
            apiVars>>

\* The caller is answered and its slot is free for another request.
Respond(p) ==
    /\ tasks[p].pc \in {"got", "raised"}
    /\ tasks' = [tasks EXCEPT ![p] = IdleTask]
    /\ UNCHANGED <<_embedding_models, _device, created, cur, running,
                   encFallbackHappened, loadFallbackHappened, envVars, tier_log, clsVars, svcVars,
                   apiVars>>

----------------------------------------------------------------------------
(* The capability modules, one call after another.  Each resolves its tier *)
(* with the same expression,                                               *)
(*   model_manager.get_recommended_tier() if not settings.MODEL_TIER       *)
(*   else settings.MODEL_TIER                                              *)

\* The tier expression: the tier it yields and the number of
\* detect_system_resources calls it makes.
effective_tier_probing(override, ram, fails) ==
    [tier |-> get_recommended_tier(detect_system_resources(ram, fails)),
     probes |-> 1]

effective_tier(override, ram, fails) ==
    IF override = None
    THEN [tier |-> get_recommended_tier(detect_system_resources(ram, fails)),
          probes |-> 1]
    ELSE [tier |-> override, probes |-> 0]

\* `tier in ['HIGH_END', 'PREMIUM']`
MlTier_mid(tier) == tier \in {"MID_RANGE", "HIGH_END", "PREMIUM"}

MlTier(tier) == tier \in {"HIGH_END", "PREMIUM"}

\* activity_classifier_ml.should_use_ml_classifier()
ShouldUseMlClassifier(fails) ==
    /\ LET e == effective_tier(settings.MODEL_TIER, host_ram, fails)
       IN  op' = [NoOp EXCEPT
                    !.name = "should_use_ml_classifier", !.resolved = TRUE,
                    !.tier = e.tier, !.probes = e.probes,
                    !.result = IF MlTier(e.tier) THEN "True" ELSE "False"]
    /\ UNCHANGED <<_classifier_model, _classifier_tokenizer, _nlp_model,
                   _bert_ner_model, clsLoadFailed, bertLoadFailed,
                   envVars, embVars, tier_log, svcVars, apiVars>>

\* activity_classifier_ml.load_classifier_model().  `tok` is how
\* AutoTokenizer.from_pretrained ends, `pipe` how pipeline(...) ends.
LoadClassifierModel(fails, tok, pipe) ==
    LET e == effective_tier(settings.MODEL_TIER, host_ram, fails)
        base == [NoOp EXCEPT !.name = "load_classifier_model",
                             !.afterFailure = clsLoadFailed]
        res == [base EXCEPT !.resolved = TRUE, !.tier = e.tier,
                            !.probes = e.probes]
    IN  IF _classifier_model # None
        THEN /\ op' = [base EXCEPT !.result = "model"]
             /\ UNCHANGED <<_classifier_model, _classifier_tokenizer,
                            clsLoadFailed>>
             /\ UNCHANGED <<_nlp_model, _bert_ner_model, bertLoadFailed,
                            envVars, embVars, tier_log, svcVars, apiVars>>
        ELSE IF ~MlTier(e.tier)
        THEN /\ op' = [res EXCEPT !.result = "None"]
             /\ UNCHANGED <<_classifier_model, _classifier_tokenizer,
                            clsLoadFailed>>
             /\ UNCHANGED <<_nlp_model, _bert_ner_model, bertLoadFailed,
                            envVars, embVars, tier_log, svcVars, apiVars>>
        ELSE IF tok # "ok"
        THEN /\ op' = [res EXCEPT !.attempts = 1, !.result = "None"]
             /\ clsLoadFailed' = TRUE
             /\ UNCHANGED <<_classifier_model, _classifier_tokenizer>>
             /\ UNCHANGED <<_nlp_model, _bert_ner_model, bertLoadFailed,
                            envVars, embVars, tier_log, svcVars, apiVars>>
        ELSE IF pipe # "ok"
        THEN /\ op' = [res EXCEPT !.attempts = 2, !.result = "None"]
             /\ _classifier_tokenizer' = "tokenizer"
             /\ clsLoadFailed' = TRUE
             /\ UNCHANGED _classifier_model
             /\ UNCHANGED <<_nlp_model, _bert_ner_model, bertLoadFailed,
                            envVars, embVars, tier_log, svcVars, apiVars>>
        ELSE /\ op' = [res EXCEPT !.attempts = 2, !.result = "model"]
             /\ _classifier_tokenizer' = "tokenizer"
             /\ _classifier_model' = "classifier"
             /\ UNCHANGED clsLoadFailed
             /\ UNCHANGED <<_nlp_model, _bert_ner_model, bertLoadFailed,
                            envVars, embVars, tier_log, svcVars, apiVars>>

\* entity_extractor_enhanced.get_nlp_model().  `out` is how spacy.load ends.
GetNlpModel(fails, out) ==
    LET e == effective_tier(settings.MODEL_TIER, host_ram, fails)
        base == [NoOp EXCEPT !.name = "get_nlp_model"]
        res == [base EXCEPT !.resolved = TRUE, !.tier = e.tier,
                            !.probes = e.probes, !.attempts = 1]
    IN  /\ IF _nlp_model # None
           THEN /\ op' = [base EXCEPT !.result = _nlp_model]
                /\ UNCHANGED _nlp_model
           ELSE IF out = "ok"
           THEN /\ op' = [res EXCEPT !.result = get_models_for_tier(e.tier).nlp]
                /\ _nlp_model' = get_models_for_tier(e.tier).nlp
           ELSE /\ op' = [res EXCEPT !.result = "raised"]
                /\ UNCHANGED _nlp_model
        /\ UNCHANGED <<_classifier_model, _classifier_tokenizer,
                       _bert_ner_model, clsLoadFailed, bertLoadFailed,
                       envVars, embVars, tier_log, svcVars, apiVars>>

\* entity_extractor_enhanced.get_bert_ner_model().  `out` is how
\* pipeline("ner", ...) ends.
GetBertNerModel(fails, out) ==
    LET e == effective_tier(settings.MODEL_TIER, host_ram, fails)
        res == [NoOp EXCEPT !.name = "get_bert_ner_model",
                            !.resolved = TRUE, !.tier = e.tier,
                            !.probes = e.probes,
                            !.afterFailure = bertLoadFailed]
    IN  /\ IF ~MlTier(e.tier)
           THEN /\ op' = [res EXCEPT !.result = "None"]
                /\ UNCHANGED <<_bert_ner_model, bertLoadFailed>>
           ELSE IF _bert_ner_model # None
           THEN /\ op' = [res EXCEPT !.result = "model"]
                /\ UNCHANGED <<_bert_ner_model, bertLoadFailed>>
           ELSE IF out = "ok"
           THEN /\ op' = [res EXCEPT !.attempts = 1, !.result = "model"]
                /\ _bert_ner_model' = "ner"
                /\ UNCHANGED bertLoadFailed
           ELSE /\ op' = [res EXCEPT !.attempts = 1, !.result = "None"]
                /\ bertLoadFailed' = TRUE
                /\ UNCHANGED _bert_ner_model
        /\ UNCHANGED <<_classifier_model, _classifier_tokenizer, _nlp_model,
                       clsLoadFailed, envVars, embVars, tier_log, svcVars,
                       apiVars>>

\* get_embedding_model(name) run from its first line to its return, on the
\* steps lookup, load and load_cpu.  lo[1] is how the first
\* SentenceTransformer(...) call ends, lo[2] how the one on the CPU ends.
run_get_embedding_model(cache, dev, made, name, usable, lo) ==
    LET a == lookup(cache, dev, name, usable)
        b == load(cache, made, name, a.device, lo[1])
        c == load_cpu(cache, a.dev, made, name, lo[2])
    IN  IF a.pc = "got"
        THEN [pc |-> "got", cache |-> cache, dev |-> a.dev, made |-> made,
              attempts |-> 0, fellBack |-> FALSE]
        ELSE IF b.pc # "load_cpu"
        THEN [pc |-> b.pc, cache |-> b.cache, dev |-> a.dev, made |-> b.made,
              attempts |-> 1, fellBack |-> FALSE]
        ELSE [pc |-> c.pc, cache |-> c.cache, dev |-> c.dev, made |-> c.made,
              attempts |-> 2, fellBack |-> c.pc = "got"]

\* embedding_service_v2.get_embedding_model_for_tier(tier)
GetEmbeddingModelForTier(tier, fails, usable, lo) ==
    LET e == IF tier = None
             THEN effective_tier(settings.MODEL_TIER, host_ram, fails)
             ELSE [tier |-> tier, probes |-> 0]
        r == run_get_embedding_model(_embedding_models, _device, created,
                default_name(get_models_for_tier(e.tier).embedding),
                usable, lo)
    IN  /\ op' = [NoOp EXCEPT
                    !.name = "get_embedding_model_for_tier",
                    !.resolved = (tier = None), !.tier = e.tier,
                    !.probes = e.probes, !.attempts = r.attempts,
                    !.result = IF r.pc = "got"
                               THEN get_models_for_tier(e.tier).embedding
                               ELSE "raised"]
        /\ _embedding_models' = r.cache
        /\ _device' = r.dev
        /\ created' = r.made
        /\ loadFallbackHappened' = (loadFallbackHappened \/ r.fellBack)
        /\ UNCHANGED <<tasks, running, cur, encFallbackHappened>>
        /\ UNCHANGED <<_classifier_model, _classifier_tokenizer, _nlp_model,
                       _bert_ner_model, clsLoadFailed, bertLoadFailed,
                       envVars, tier_log, svcVars, apiVars>>

----------------------------------------------------------------------------
(* services/model_manager.py: the model manager's API                      *)
(* (api/routes.py: POST /models/update, GET /models/current)               *)

\* The model names a /models/update request can carry: absent, the empty
\* string, or a name.
LlmArgs == {None, "", "mistral:7b"}
EmbeddingArgs == {None, "", "all-mpnet-base-v2"}
NlpArgs == {None, "", "en_core_web_md"}

\* Python's truth value of an Optional[str]: None and '' are false.
Truthy(x) == x # None /\ x # ""

\* `_model_manager = None`: the singleton before its construction.
NoManager == [constructed |-> FALSE, current_tier |-> None]

\* get_model_manager(): the singleton, constructed on first use.
\* ModelManager.__init__ reads the tier override once, into current_tier.
get_model_manager(mgr, cfg) ==
    IF ~mgr.constructed
    THEN [constructed |-> TRUE, current_tier |-> cfg.MODEL_TIER]
    ELSE mgr

\* ModelManager.update_models: the settings after the call.
update_models_all(cfg, llm_model, embedding_model, nlp_model) ==
    [cfg EXCEPT
        !.OLLAMA_MODEL = IF Truthy(llm_model) THEN llm_model ELSE @,
        !.EMBEDDING_MODEL = IF Truthy(llm_model) THEN llm_model ELSE @,
        !.SPACY_MODEL = IF Truthy(nlp_model) THEN nlp_model ELSE @]

update_models(cfg, llm_model, embedding_model, nlp_model) ==
    [cfg EXCEPT
        !.OLLAMA_MODEL = IF Truthy(llm_model) THEN llm_model ELSE @,
        !.EMBEDDING_MODEL =
            IF Truthy(embedding_model) THEN embedding_model ELSE @,
        !.SPACY_MODEL = IF Truthy(nlp_model) THEN nlp_model ELSE @]

\* ModelManager.get_current_models
get_current_models(mgr, cfg) ==
    [llm_model |-> cfg.OLLAMA_MODEL, embedding_model |-> cfg.EMBEDDING_MODEL,
     nlp_model |-> cfg.SPACY_MODEL, tier |-> mgr.current_tier]

\* The log of the manager's API keeps the last two calls.
Logged(log, e) == IF Len(log) < 2 THEN Append(log, e) ELSE <<log[2], e>>

\* POST /models/update.  The entry logged holds the arguments, what
\* get_current_models would have reported when the call began (before),
\* and the dict returned.
UpdateModels(llm_model, embedding_model, nlp_model) ==
    LET mgr == get_model_manager(_model_manager, settings)
        cfg == update_models(settings, llm_model, embedding_model, nlp_model)
    IN  /\ _model_manager' = mgr
        /\ settings' = cfg
        /\ mgr_log' = Logged(mgr_log,
                [name |-> "update_models", llm_model |-> llm_model,
                 embedding_model |-> embedding_model, nlp_model |-> nlp_model,
                 before |-> get_current_models(mgr, settings),
                 result |-> [success |-> TRUE, llm_model |-> cfg.OLLAMA_MODEL,
                             embedding_model |-> cfg.EMBEDDING_MODEL,
                             nlp_model |-> cfg.SPACY_MODEL]])
        /\ UNCHANGED <<cuda_available, host_ram, embVars, tier_log, clsVars,
                       classification, ext, daily_summary, summary, apiVars>>

\* GET /models/current
GetCurrentModels ==
    LET mgr == get_model_manager(_model_manager, settings)
    IN  /\ _model_manager' = mgr
        /\ mgr_log' = Logged(mgr_log,
                [name |-> "get_current_models", llm_model |-> None,
                 embedding_model |-> None, nlp_model |-> None,
                 before |-> get_current_models(mgr, settings),
                 result |-> get_current_models(mgr, settings)])
        /\ UNCHANGED <<envVars, embVars, tier_log, clsVars,
                       classification, ext, daily_summary, summary, apiVars>>

----------------------------------------------------------------------------
(* services/activity_classifier_ml.py: classify_activity_ml                *)

\* The labels the zero-shot classifier is asked to choose from.
ACTIVITY_TYPES ==
    {"coding", "reading", "watching", "gaming", "shopping", "social",
     "learning", "entertainment", "work", "other"}

\* The top label and the top score (in hundredths) the classifier can
\* answer with: a zero-shot pipeline answers with the candidate labels.
TopLabels == {"coding", "other"}
TopScores == {20, 90}

\* How the call classifier(input_text, ACTIVITY_TYPES) can end: a result
\* with labels and scores, a result without them, an exception.
InferenceResults == {"ok", "bad_format", "error"}

\* map_to_activity_type on a candidate label: the direct mapping.
map_to_activity_type(label) == IF label \in ACTIVITY_TYPES THEN label ELSE "other"

\* What classify_activity_ml returns: activity_type, confidence (in
\* hundredths) and reason, with the tier its gate resolved, the tier
\* load_classifier_model resolved (None when it resolved none), and the
\* instantiations (tokenizer, pipeline) it attempted.
NoClassification ==
    [activity_type |-> None, confidence |-> 0, reason |-> None,
     tier |-> None, load_tier |-> None, attempts |-> 0]

\* The fixed low-confidence answer, with its reason.
Undetermined(reason) ==
    [NoClassification EXCEPT
        !.activity_type = "other", !.confidence = 50, !.reason = reason]

\* load_classifier_model() as a function of the cached model and tokenizer
\* and of the tier `e` its tier expression yields: the globals after the
\* call, the classifier returned, the instantiations attempted.
load_classifier_model(model, tokenizer, e, tok, pipe) ==
    IF model # None
    THEN [model |-> model, tokenizer |-> tokenizer, classifier |-> model,
          resolved |-> FALSE, attempts |-> 0, failed |-> FALSE]
    ELSE IF ~MlTier(e.tier)
    THEN [model |-> model, tokenizer |-> tokenizer, classifier |-> None,
          resolved |-> TRUE, attempts |-> 0, failed |-> FALSE]
    ELSE IF tok # "ok"
    THEN [model |-> model, tokenizer |-> tokenizer, classifier |-> None,
          resolved |-> TRUE, attempts |-> 1, failed |-> TRUE]
    ELSE IF pipe # "ok"
    THEN [model |-> model, tokenizer |-> "tokenizer", classifier |-> None,
          resolved |-> TRUE, attempts |-> 2, failed |-> TRUE]
    ELSE [model |-> "classifier", tokenizer |-> "tokenizer",
          classifier |-> "classifier",
          resolved |-> TRUE, attempts |-> 2, failed |-> FALSE]

\* classify_activity_ml(app_name, window_title, ...).  `fails1` is whether
\* the probe of should_use_ml_classifier raises, `fails2` the same for the
\* probe of load_classifier_model; `inf` is how the classifier call ends,
\* `label` and `score` its top prediction.
ClassifyActivityMl(fails1, fails2, tok, pipe, inf, label, score) ==
    LET gate == effective_tier(settings.MODEL_TIER, host_ram, fails1)
        e2 == effective_tier(settings.MODEL_TIER, host_ram, fails2)
        ld == load_classifier_model(_classifier_model,
                                    _classifier_tokenizer, e2, tok, pipe)
        reply ==
            IF ld.classifier = None
            THEN Undetermined("ML model not loaded, use rule-based classifier")
            ELSE IF inf = "error"
            THEN Undetermined("ML classification error")
            ELSE IF inf = "bad_format"
            THEN Undetermined("ML classification returned unexpected format")
            ELSE [NoClassification EXCEPT
                    !.activity_type = map_to_activity_type(label),
                    !.confidence = score,
                    !.reason = "ML classification"]
    IN  IF ~MlTier(gate.tier)
        THEN /\ classification' =
                    [Undetermined("Tier does not support ML classification, use rule-based")
                        EXCEPT !.tier = gate.tier]
             /\ op' = [NoOp EXCEPT
                        !.name = "classify_activity_ml", !.resolved = TRUE,
                        !.tier = gate.tier, !.probes = gate.probes,
                        !.afterFailure = clsLoadFailed, !.result = "other"]
             /\ UNCHANGED <<_classifier_model, _classifier_tokenizer,
                            clsLoadFailed>>
             /\ UNCHANGED <<_nlp_model, _bert_ner_model, bertLoadFailed,
                            envVars, embVars, tier_log, _model_manager,
                            mgr_log, ext, daily_summary, summary, apiVars>>
        ELSE /\ classification' =
                    [reply EXCEPT
                        !.tier = gate.tier,
                        !.load_tier = IF ld.resolved THEN e2.tier ELSE None,
                        !.attempts = ld.attempts]
             /\ op' = [NoOp EXCEPT
                        !.name = "classify_activity_ml", !.resolved = TRUE,
                        !.tier = gate.tier,
                        !.probes = gate.probes
                                   + IF ld.resolved THEN e2.probes ELSE 0,
                        !.attempts = ld.attempts,
                        !.afterFailure = clsLoadFailed,
                        !.result = reply.activity_type]
             /\ _classifier_model' = ld.model
             /\ _classifier_tokenizer' = ld.tokenizer
             /\ clsLoadFailed' = (clsLoadFailed \/ ld.failed)
             /\ UNCHANGED <<_nlp_model, _bert_ner_model, bertLoadFailed,
                            envVars, embVars, tier_log, _model_manager,
                            mgr_log, ext, daily_summary, summary, apiVars>>

----------------------------------------------------------------------------
(* services/entity_extractor_enhanced.py: extract_entities_enhanced        *)

\* The entities the spaCy pass can find in a text (doc.ents), each with its
\* surface text and its spaCy label.
SpacyEnts == [text : {"Ada", "Paris"}, label_ : {"PERSON", "DATE"}]

\* The entities the BERT NER pipeline can find, each with its word and its
\* entity group.
BertEnts == [word : {"Ada", "Paris"}, entity_group : {"PER", "MISC"}]

SpacyEntLists == UNION {[1..n -> SpacyEnts] : n \in 0..MaxEnts}
BertEntLists == UNION {[1..n -> BertEnts] : n \in 0..MaxEnts}

\* The extract_types a request can carry, as the set of its members; None
\* and the empty list are both false in `if extract_types and ...`.
ExtractTypes == {{}, {"PERSON"}, {"person", "movie"}}

\* The min_confidence a request can carry (0.5 is the default), in
\* hundredths.
MinConfidences == {50, 90}

\* The matches of the movie patterns of extract_specialized_entities in a
\* text: none, or one title.
SpecializedMatches == {<<>>, <<"dune">>}

\* map_spacy_label: label_map.get(spacy_label, 'OTHER')
map_spacy_label(spacy_label) ==
    CASE spacy_label = "PERSON" -> "PERSON"
      [] spacy_label = "ORG" -> "ORGANIZATION"
      [] spacy_label = "GPE" -> "LOCATION"
      [] spacy_label = "PRODUCT" -> "TECH"
      [] OTHER -> "OTHER"

\* map_bert_label: label_map.get(bert_label, 'OTHER')
map_bert_label(bert_label) ==
    CASE bert_label = "PER" -> "PERSON"
      [] bert_label = "ORG" -> "ORGANIZATION"
      [] bert_label = "LOC" -> "LOCATION"
      [] OTHER -> "OTHER"

\* `if extract_types and label not in extract_types: continue`
Filtered(extract_types, label) ==
    extract_types # {} /\ label \notin extract_types

\* The spaCy loop: one Concept (confidence 0.8, in hundredths here) per
\* entity of doc.ents that passes the filter, in the order of doc.ents.
RECURSIVE spacy_pass(_, _)
spacy_pass(ents, extract_types) ==
    IF ents = <<>> THEN <<>>
    ELSE LET label == map_spacy_label(Head(ents).label_)
             rest == spacy_pass(Tail(ents), extract_types)
         IN  IF Filtered(extract_types, label) THEN rest
             ELSE <<[text |-> Head(ents).text, label |-> label,
                     confidence |-> 80]>> \o rest

\* `any(c.text == entity['word'] and c.label == label for c in concepts)`
already_extracted_raw(concepts, entity, label) ==
    \E i \in DOMAIN concepts :
        concepts[i].text = entity.word
        /\ concepts[i].label = entity.entity_group

already_extracted(concepts, entity, label) ==
    \E i \in DOMAIN concepts :
        concepts[i].text = entity.word /\ concepts[i].label = label

\* The BERT loop: appends to `concepts` a Concept for every entity that
\* passes the filter and is not already in `concepts`, in order.
RECURSIVE bert_loop(_, _, _)
bert_loop(concepts, entities, extract_types) ==
    IF entities = <<>> THEN concepts
    ELSE LET entity == Head(entities)
             label == map_bert_label(entity.entity_group)
         IN  IF Filtered(extract_types, label)
                \/ already_extracted(concepts, entity, label)
             THEN bert_loop(concepts, Tail(entities), extract_types)
             ELSE bert_loop(Append(concepts,
                                   [text |-> entity.word, label |-> label,
                                    confidence |-> 99]),
                            Tail(entities), extract_types)

\* The enhancement block: `if bert_model:` the inference and the loop,
\* inside a try whose except only logs.  `raised` is whether an exception
\* leaves the block.
bert_pass_unguarded(concepts, bert_model, inf, entities, extract_types) ==
    IF bert_model = None THEN [concepts |-> concepts, raised |-> FALSE]
    ELSE IF inf # "ok" THEN [concepts |-> concepts, raised |-> TRUE]
    ELSE [concepts |-> bert_loop(concepts, entities, extract_types),
          raised |-> FALSE]

bert_pass(concepts, bert_model, inf, entities, extract_types) ==
    IF bert_model = None THEN [concepts |-> concepts, raised |-> FALSE]
    ELSE IF inf # "ok" THEN [concepts |-> concepts, raised |-> FALSE]
    ELSE [concepts |-> bert_loop(concepts, entities, extract_types),
          raised |-> FALSE]

\* extract_specialized_entities, its movie patterns: one MOVIE Concept
\* (confidence 0.7) per match, when the filter lets the movie group through.
extract_specialized_entities(matches, extract_types) ==
    IF extract_types = {} \/ "movie" \in extract_types
          \/ "video" \in extract_types
    THEN [i \in DOMAIN matches |->
            [text |-> matches[i], label |-> "MOVIE", confidence |-> 70]]
    ELSE <<>>

\* get_nlp_model() as a function of the cached model and of the tier its
\* tier expression yields: the global after the call and whether
\* spacy.load raised (the exception leaves get_nlp_model).
get_nlp_model(nlp_model, e, out) ==
    IF nlp_model # None THEN [model |-> nlp_model, raised |-> FALSE]
    ELSE IF out = "ok"
    THEN [model |-> get_models_for_tier(e.tier).nlp, raised |-> FALSE]
    ELSE [model |-> nlp_model, raised |-> TRUE]

\* get_bert_ner_model() as a function of the cached pipeline and of the
\* tier its tier expression yields: the global after the call, the model
\* returned, the instantiations attempted.
get_bert_ner_model(bert_ner_model, e, out) ==
    IF ~MlTier(e.tier)
    THEN [model |-> bert_ner_model, returned |-> None, attempts |-> 0,
          failed |-> FALSE]
    ELSE IF bert_ner_model # None
    THEN [model |-> bert_ner_model, returned |-> bert_ner_model,
          attempts |-> 0, failed |-> FALSE]
    ELSE IF out = "ok"
    THEN [model |-> "ner", returned |-> "ner", attempts |-> 1,
          failed |-> FALSE]
    ELSE [model |-> bert_ner_model, returned |-> None, attempts |-> 1,
          failed |-> TRUE]

\* str.lower() of an entity label.
lower(label) ==
    CASE label = "PERSON" -> "person"
      [] label = "ORGANIZATION" -> "organization"
      [] label = "LOCATION" -> "location"
      [] label = "TECH" -> "tech"
      [] label = "MOVIE" -> "movie"
      [] OTHER -> "other"

\* Whether the spaCy loop skips an entity whose type extract_types names
\* (in the lower case the docstring of extract_entities_enhanced lists).
drops_named(ents, extract_types) ==
    \E i \in DOMAIN ents :
        /\ lower(map_spacy_label(ents[i].label_)) \in extract_types
        /\ Filtered(extract_types, map_spacy_label(ents[i].label_))

\* An extract_entities_enhanced call: its min_confidence and
\* extract_types, whether its spaCy loop skipped an entity of a type
\* extract_types names (dropped_named), the concepts of
\* the spaCy pass (base), the concepts so far, the tier get_bert_ner_model
\* resolved, the BERT instantiations attempted, whether the inference was
\* invoked and how it ended, whether it found an entity the spaCy pass had
\* produced already (same text, same mapped label), the concepts the BERT
\* loop appended (added), and the concepts returned.
NoExt ==
    [pc |-> "none", min_confidence |-> 50, extract_types |-> {},
     dropped_named |-> FALSE, base |-> <<>>, concepts |-> <<>>,
     bert_tier |-> None, bert_attempts |-> 0, bert_load_failed |-> FALSE,
     bert_ran |-> FALSE, bert_out |-> None, bert_dup_seen |-> FALSE,
     added |-> <<>>, result |-> <<>>]

\* extract_entities_enhanced(text, min_confidence, extract_types) is called.
ExtractEntitiesEnhanced(min_confidence, extract_types) ==
    /\ ext.pc \in {"none", "done"}
    /\ ext' = [NoExt EXCEPT !.pc = "base",
                            !.min_confidence = min_confidence,
                            !.extract_types = extract_types]
    /\ UNCHANGED <<envVars, embVars, tier_log, clsVars, _model_manager,
                   mgr_log, classification, daily_summary, summary, apiVars>>

\* get_nlp_model(), nlp(text) and the spaCy loop.  `out` is how spacy.load
\* ends, `doc_out` how nlp(text) ends, `ents` what it finds.  An exception
\* of either reaches the outer except, which returns empty lists.
ExtBase(fails, out, doc_out, ents) ==
    /\ ext.pc = "base"
    /\ LET e == effective_tier(settings.MODEL_TIER, host_ram, fails)
           m == get_nlp_model(_nlp_model, e, out)
           concepts == spacy_pass(ents, ext.extract_types)
       IN  /\ _nlp_model' = m.model
           /\ ext' = IF m.raised \/ doc_out # "ok"
                     THEN [ext EXCEPT !.pc = "done", !.result = <<>>]
                     ELSE [ext EXCEPT !.pc = "enhance", !.base = concepts,
                                      !.concepts = concepts,
                                      !.dropped_named =
                                        drops_named(ents, ext.extract_types)]
    /\ UNCHANGED <<_classifier_model, _classifier_tokenizer,
                   _bert_ner_model, op, clsLoadFailed, bertLoadFailed,
                   envVars, embVars, tier_log, _model_manager, mgr_log,
                   classification, daily_summary, summary, apiVars>>

\* get_bert_ner_model(), the enhancement block, the specialized entities
\* and the return.  `out` is how pipeline("ner") ends, `inf` how
\* bert_model(text) ends, `entities` what it finds, `matches` what the
\* movie patterns match.  (keywords and topics are computed from doc and
\* leave the concepts alone.)
ExtEnhance(fails, out, inf, entities, matches) ==
    /\ ext.pc = "enhance"
    /\ LET e == effective_tier(settings.MODEL_TIER, host_ram, fails)
           g == get_bert_ner_model(_bert_ner_model, e, out)
           b == bert_pass(ext.concepts, g.returned, inf, entities,
                          ext.extract_types)
           all == b.concepts
                    \o extract_specialized_entities(matches,
                                                    ext.extract_types)
       IN  /\ _bert_ner_model' = g.model
           /\ bertLoadFailed' = (bertLoadFailed \/ g.failed)
           /\ ext' = [ext EXCEPT
                        !.pc = "done",
                        !.bert_tier = e.tier,
                        !.bert_attempts = g.attempts,
                        !.bert_load_failed = g.failed,
                        !.bert_ran = (g.returned # None),
                        !.bert_out = IF g.returned # None THEN inf ELSE None,
                        !.bert_dup_seen =
                            (/\ g.returned # None /\ inf = "ok"
                             /\ \E i \in DOMAIN entities, j \in DOMAIN ext.base :
                                    /\ ext.base[j].text = entities[i].word
                                    /\ ext.base[j].label =
                                        map_bert_label(entities[i].entity_group)),
                        !.concepts = b.concepts,
                        !.added = SubSeq(b.concepts, Len(ext.concepts) + 1,
                                         Len(b.concepts)),
                        !.result = IF b.raised THEN <<>> ELSE all]
    /\ UNCHANGED <<_classifier_model, _classifier_tokenizer, _nlp_model,
                   op, clsLoadFailed, envVars, embVars, tier_log,
                   _model_manager, mgr_log, classification, daily_summary,
                   summary, apiVars>>

----------------------------------------------------------------------------
(* services/activity_insights.py: generate_daily_summary_ai               *)

\* A text is a sequence of characters.  In an LLM response "{" and "}" are
\* the braces, "p" stands for a member list that json.loads accepts and
\* that holds every field of DailySummary, "q" for a member list that
\* json.loads accepts and that lacks some field, "x" for any other text.
ResponseChars == {"{", "}", "p", "q", "x"}

LlmResponses == UNION {[1..n -> ResponseChars] : n \in 0..MaxResponseLen}

\* The answer of the query engine, str(response).
QueryResponses == {<<"r">>}

\* The activities_data of a request: its activities and its concepts
\* (absent keys read as empty lists).
ActivitiesData ==
    {[activities |-> <<>>, concepts |-> <<>>],
     [activities |-> <<"coding">>, concepts |-> <<"tla">>]}

\* str.find(ch): the lowest index (from 0) of ch in s, -1 when absent.
find(s, ch) ==
    IF \E i \in DOMAIN s : s[i] = ch
    THEN (CHOOSE i \in DOMAIN s :
            s[i] = ch /\ \A j \in DOMAIN s : s[j] = ch => i <= j) - 1
    ELSE -1

\* str.rfind(ch): the highest index (from 0) of ch in s, -1 when absent.
rfind(s, ch) ==
    IF \E i \in DOMAIN s : s[i] = ch
    THEN (CHOOSE i \in DOMAIN s :
            s[i] = ch /\ \A j \in DOMAIN s : s[j] = ch => i >= j) - 1
    ELSE -1

\* json.loads on a text: the object it denotes, or "error" when the text
\* is not one JSON value.
json_loads(text) ==
    IF text = <<"{", "p", "}">> THEN "full"
    ELSE IF text = <<"{", "q", "}">> THEN "partial"
    ELSE IF text = <<"{", "}">> THEN "empty"
    ELSE "error"

\* DailySummary(**parsed).dict(): every field is required, so only an
\* object that holds them all validates.
DailySummaryOf(parsed) ==
    IF parsed = "full"
    THEN [ok |-> TRUE,
          value |-> [summary |-> <<"p">>, activities |-> <<"p">>,
                     concepts_learned |-> <<"p">>, insights |-> <<"p">>,
                     structured |-> TRUE]]
    ELSE [ok |-> FALSE, value |-> <<>>]

\* The try of generate_daily_summary_ai that parses the LLM response: the
\* dict it returns, or parsed |-> FALSE when control leaves the try
\* without a return (no brace found, or an exception, which is logged).
parse_structured(llm_response) ==
    LET json_match == find(llm_response, "{")
        json_text == SubSeq(llm_response, json_match + 1, Len(llm_response))
        json_end == rfind(json_text, "}")
        cut == SubSeq(json_text, 1, json_end + 1)
    IN  IF json_match = -1 THEN [parsed |-> FALSE, value |-> <<>>]
        ELSE IF json_end = -1 THEN [parsed |-> FALSE, value |-> <<>>]
        ELSE IF json_loads(cut) = "error"
        THEN [parsed |-> FALSE, value |-> <<>>]
        ELSE [parsed |-> DailySummaryOf(json_loads(cut)).ok,
              value |-> DailySummaryOf(json_loads(cut)).value]

\* The fallback return of generate_daily_summary_ai.
simple_summary(activities_data, response) ==
    [summary |-> response, activities |-> activities_data.activities,
     concepts_learned |-> activities_data.concepts,
     insights |-> <<response>>, structured |-> FALSE]

\* The return of the outer except.
unable_summary ==
    [summary |-> <<"Unable to generate AI summary">>, activities |-> <<>>,
     concepts_learned |-> <<>>, insights |-> <<>>, structured |-> FALSE]

\* A generate_daily_summary_ai call: its input, the answer of the query
\* engine, the LLM response it parsed (llm_ok: whether the LLM call
\* returned one), and the dict it returned.
NoDailySummary ==
    [called |-> FALSE, activities_data |-> [activities |-> <<>>,
                                            concepts |-> <<>>],
     response |-> <<>>, llm_ok |-> FALSE, llm_response |-> <<>>,
     result |-> unable_summary]

\* generate_daily_summary_ai(activities_data).  `out` is how the calls
\* before the parse end (the index, the query engine, ollama_client.
\* generate): an exception of any reaches the outer except.
GenerateDailySummaryAi(activities_data, response, out, llm_response) ==
    /\ daily_summary' =
        IF out # "ok"
        THEN [NoDailySummary EXCEPT
                !.called = TRUE, !.activities_data = activities_data,
                !.result = unable_summary]
        ELSE [NoDailySummary EXCEPT
                !.called = TRUE, !.activities_data = activities_data,
                !.response = response, !.llm_ok = TRUE,
                !.llm_response = llm_response,
                !.result =
                    IF parse_structured(llm_response).parsed
                    THEN parse_structured(llm_response).value
                    ELSE simple_summary(activities_data, response)]
    /\ UNCHANGED <<envVars, embVars, tier_log, clsVars, _model_manager,
                   mgr_log, classification, ext, summary, apiVars>>

----------------------------------------------------------------------------
(* services/summarizer.py: summarize_content                               *)

\* `max_content_length = 4000`
max_content_length == 4000

\* A text made from the content of a request is known by the number of
\* leading characters of the content it holds and the number of dots that
\* follow them (the content itself holds no dot).
Text(chars, dots) == [chars |-> chars, dots |-> dots]

\* len(t)
TextLen(t) == t.chars + t.dots

Min(a, b) == IF a <= b THEN a ELSE b

\* t[:n], n >= 0
Slice(t, n) ==
    Text(Min(t.chars, n), IF n > t.chars THEN Min(t.dots, n - t.chars) ELSE 0)

\* t + "..."
Ellipsis(t) == Text(t.chars, t.dots + 3)

\* The lengths of the content of a request, and the max_length values.
ContentLens == {0, 1, 200, 201, 4000, 4001, 4010}
MaxLengths == {0, 1, 200, 4000, 4001, 4002, 4003, 5000}

\* `if len(content) > max_content_length:
\*      content = content[:max_content_length] + "..."`
limit_content(content) ==
    IF TextLen(content) > max_content_length
    THEN Ellipsis(Slice(content, max_content_length))
    ELSE content

\* The SummarizeResponse of the except branch, on the `content` variable
\* as it is there:
\* `content[:max_length] + "..." if len(content) > max_length else content`
fallback_summary(content, max_length) ==
    [summary |-> IF TextLen(content) > max_length
                 THEN Ellipsis(Slice(content, max_length))
                 ELSE content,
     from_llm |-> FALSE, key_points |-> <<>>,
     complexity |-> "intermediate", sentiment |-> 0]

\* What parse_summary_response can make of an LLM response: the key
\* points, the complexity and the sentiment (in tenths) it finds.
ParsedSummaries ==
    [key_points : {<<>>, <<"point">>},
     complexity : {"beginner", "intermediate"}, sentiment : {0, 1}]

\* A summarize_content call: the length of its content, its max_length,
\* whether the LLM call or the parse failed, and the response returned.
NoSummary ==
    [called |-> FALSE, content_len |-> 0, max_length |-> 0,
     failed |-> FALSE, result |-> fallback_summary(Text(0, 0), 0)]

\* summarize_content(content, max_length, include_key_points).  `llm` is
\* how ollama_client.generate ends, `parse` how parse_summary_response
\* ends, `parsed` what it returns.
SummarizeContent(content_len, max_length, llm, parse, parsed) ==
    /\ LET content == limit_content(Text(content_len, 0))
       IN  summary' =
            [called |-> TRUE, content_len |-> content_len,
             max_length |-> max_length,
             failed |-> (llm # "ok" \/ parse # "ok"),
             result |->
                IF llm # "ok" \/ parse # "ok"
                THEN fallback_summary(content, max_length)
                ELSE [summary |-> Text(0, 0), from_llm |-> TRUE,
                      key_points |-> parsed.key_points,
                      complexity |-> parsed.complexity,
                      sentiment |-> parsed.sentiment]]
    /\ UNCHANGED <<envVars, embVars, tier_log, clsVars, _model_manager,
                   mgr_log, classification, ext, daily_summary, apiVars>>

----------------------------------------------------------------------------
(* api/routes.py: the endpoints that take `request: dict`, and             *)
(* /generate-insights                                                      *)

\* A JSON body is a dict: a function from the keys it holds.
EmptyDict == [k \in {} |-> None]

\* request.get(key, default)
get(request, key, default) ==
    IF key \in DOMAIN request THEN request[key] ELSE default

\* The dicts that hold some of the keys of `fields`, each with one of its
\* values.
Dicts(fields) ==
    UNION {[keys -> UNION {fields[k] : k \in keys}] :
                keys \in SUBSET DOMAIN fields}

\* The bodies sent to /chat and /rag/query.  The JSON values are written
\* as strings: "[]" and "[doc]" are context lists, "true" and "false" the
\* booleans.
QueryRequests ==
    {d \in Dicts([query |-> {"", "q"}, context |-> {"[]", "[doc]"},
                  stream |-> {"true", "false"}]) :
        /\ "query" \in DOMAIN d => d.query \in {"", "q"}
        /\ "context" \in DOMAIN d => d.context \in {"[]", "[doc]"}
        /\ "stream" \in DOMAIN d => d.stream \in {"true", "false"}}

\* The bodies sent to /analyze-image, /extract-structured, /extract-tables.
FileRequests == {EmptyDict, [file_path |-> ""], [file_path |-> "a.png"]}

\* The insight_type values sent to /generate-insights.
InsightTypes == {"daily", "weekly", "gaps", "focus", "monthly"}

\* How the body of a handler ends: it returns, or raises an exception.
\* fastapi.HTTPException is a subclass of Exception.
Returned == [raised |-> FALSE, cls |-> None, status_code |-> 200,
             detail |-> None]
HTTPException(status_code, detail) ==
    [raised |-> TRUE, cls |-> "HTTPException", status_code |-> status_code,
     detail |-> detail]
Exception(message) ==
    [raised |-> TRUE, cls |-> "Exception", status_code |-> 0,
     detail |-> message]

\* `except Exception as e:` catches every exception class modelled here.
CaughtByExceptException(e) ==
    e.raised /\ e.cls \in {"Exception", "HTTPException"}

\* str(e): the message of an exception; for an HTTPException the status
\* code and the detail.
str(e) ==
    IF e.cls = "HTTPException" THEN <<e.status_code, e.detail>>
    ELSE <<e.detail>>

\* The frame every handler has:
\*   try: <body>
\*   except Exception as e:
\*       raise HTTPException(status_code=500, detail=str(e))
try_except(body) ==
    IF CaughtByExceptException(body) THEN HTTPException(500, str(body))
    ELSE body

\* The body of a handler that needs `key`: the check of the field, then
\* the service call, which ends as `out`.
require(request, key, detail, out) ==
    IF ~Truthy(get(request, key, None)) THEN HTTPException(400, detail)
    ELSE IF out = "ok" THEN Returned
    ELSE Exception(out)

\* The body of rag_query.  The non-streaming branch calls
\* result.get("summary", "") on the SummarizeResponse summarize_content
\* returns, a pydantic model without a get method.
rag_query_body(request, out) ==
    IF ~Truthy(get(request, "query", None))
    THEN HTTPException(400, "Query is required")
    ELSE IF get(request, "stream", "false") = "true" THEN Returned
    ELSE IF out = "ok" THEN Exception("AttributeError")
    ELSE Exception(out)

\* The body of generate_insights.  routes.py never imports datetime, which
\* the construction of the response uses.
generate_insights_body(insight_type, out) ==
    IF insight_type \notin {"daily", "weekly", "gaps", "focus"}
    THEN HTTPException(400, "Unknown insight type")
    ELSE IF out = "ok" THEN Exception("NameError")
    ELSE Exception(out)

\* No response sent yet.
NoResponse ==
    [endpoint |-> None, request |-> EmptyDict, missing |-> FALSE,
     status_code |-> 0, detail |-> None]

\* What the client receives: the result of the handler, or the response
\* FastAPI makes of the HTTPException that left it.
Respond_(endpoint, request, missing, r) ==
    /\ http_response' =
            [endpoint |-> endpoint, request |-> request, missing |-> missing,
             status_code |-> r.status_code, detail |-> r.detail]
    /\ UNCHANGED <<envVars, embVars, tier_log, clsVars, svcVars,
                   notRouteVars>>

\* POST /chat
chat(request, out) ==
    Respond_("/chat", request, ~Truthy(get(request, "query", "")),
             try_except(require(request, "query", "Query is required", out)))

\* POST /rag/query
rag_query(request, out) ==
    Respond_("/rag/query", request, ~Truthy(get(request, "query", None)),
             try_except(rag_query_body(request, out)))

\* POST /analyze-image
analyze_image_endpoint(request, out) ==
    Respond_("/analyze-image", request, ~Truthy(get(request, "file_path", None)),
             try_except(require(request, "file_path",
                                "file_path is required", out)))

\* POST /extract-structured
extract_structured_endpoint(request, out) ==
    Respond_("/extract-structured", request,
             ~Truthy(get(request, "file_path", None)),
             try_except(require(request, "file_path",
                                "file_path is required", out)))

\* POST /extract-tables
extract_tables_endpoint(request, out) ==
    Respond_("/extract-tables", request, ~Truthy(get(request, "file_path", None)),
             try_except(require(request, "file_path",
                                "file_path is required", out)))

\* POST /generate-insights
generate_insights(insight_type, out) ==
    Respond_("/generate-insights", [insight_type |-> insight_type],
             insight_type \notin {"daily", "weekly", "gaps", "focus"},
             try_except(generate_insights_body(insight_type, out)))

----------------------------------------------------------------------------
(* services/embedding.py: the embedder that keeps one model                *)

\* Python values that carry their type: an int and a str.
PyInt(n) == [type |-> "int", val |-> n]
PyStr(x) == [type |-> "str", val |-> x]

\* a != b.  Values of different types are never equal.
py_ne(a, b) == a.type # b.type \/ a.val # b.val

\* model.get_sentence_embedding_dimension(): the length of the vectors of
\* a model.
get_sentence_embedding_dimension ==
    [n \in ModelNames |->
        IF n = "all-mpnet-base-v2" THEN PyInt(768) ELSE PyInt(384)]

\* embedding.get_device(): resolves embedding.py's _device on first use.
embedding_get_device(dev, usable) ==
    IF dev = None
    THEN IF cuda_available /\ usable THEN "cuda" ELSE "cpu"
    ELSE dev

\* `_embedding_model is None or
\*  _embedding_model.get_sentence_embedding_dimension() != model_name`
must_load(slot, model_name) ==
    \/ slot = NoHandle
    \/ py_ne(get_sentence_embedding_dimension[slot.name], PyStr(model_name))

\* embedding.get_embedding_model(model_name).  lo[1] is how the first
\* SentenceTransformer(...) call ends, lo[2] how the one on the CPU ends.
\* The result holds the slot, the device and the number of objects made
\* after the call, the number this call made, and whether it raised.
\* `_device = 'cpu'` in the fallback binds a local name.
embedding_get_embedding_model(slot, dev, made, model_name, usable, lo) ==
    LET name == default_name(model_name)
        device == embedding_get_device(dev, usable)
        fresh == [name |-> name, serial |-> made + 1]
    IN  IF ~must_load(slot, name)
        THEN [slot |-> slot, dev |-> dev, made |-> made, constructed |-> 0,
              raised |-> FALSE]
        ELSE IF lo[1] = "ok" \/ (device = "cuda" /\ lo[2] = "ok")
        THEN [slot |-> fresh, dev |-> device, made |-> made + 1,
              constructed |-> 1, raised |-> FALSE]
        ELSE [slot |-> slot, dev |-> device, made |-> made,
              constructed |-> 0, raised |-> TRUE]

\* A call of embedding.get_embedding_model.  The entry logged holds the
\* name asked for, the slot before the call, the number of models the
\* call instantiated and the handle it returned.
SlotGetEmbeddingModel(model_name, usable, lo) ==
    /\ slot_made < MaxSlotLoads
    /\ LET r == embedding_get_embedding_model(_embedding_model,
                    embedding_device, slot_made, model_name, usable, lo)
       IN  /\ _embedding_model' = r.slot
           /\ embedding_device' = r.dev
           /\ slot_made' = r.made
           /\ slot_log' = Logged(slot_log,
                    [name |-> default_name(model_name),
                     before |-> _embedding_model,
                     constructed |-> r.constructed, raised |-> r.raised,
                     handle |-> IF r.raised THEN NoHandle ELSE r.slot])
    /\ UNCHANGED <<envVars, embVars, tier_log, clsVars, svcVars,
                   notSlotVars>>

----------------------------------------------------------------------------
(* services/llamaindex_service.py: the index cache                         *)

IndexIds == {"default", "notes"}

\* A VectorStoreIndex object: the id it was made for, its serial number
\* among the objects made, and the data it holds ("old" is data persisted
\* by an earlier process, a number the serial of the build that made it).
NoIndex == [index_id |-> None, serial |-> 0, data |-> None]

\* The persist directory when the process starts: an earlier process left
\* the index "default" there, and none for "notes".
PersistedAtStart == [i \in {"default"} |-> "old"]

\* `os.path.exists(os.path.join(_index_persist_dir, index_id))`
path_exists(disk, index_id) == index_id \in DOMAIN disk

\* get_vector_store_index(index_id, force_reload).  `out` is how
\* VectorStoreIndex.load_from_disk ends.  The result holds the index
\* returned (NoIndex for None), the cache and the objects made after the
\* call, and whether load_from_disk was called.
get_vector_store_index(cache, dir, disk, made, index_id, force_reload, out) ==
    IF ~force_reload /\ index_id \in DOMAIN cache
    THEN [index |-> cache[index_id], cache |-> cache, made |-> made,
          loaded |-> FALSE]
    ELSE IF dir # None /\ path_exists(disk, index_id) /\ ~force_reload
    THEN IF out = "ok"
         THEN [index |-> [index_id |-> index_id, serial |-> made + 1,
                          data |-> disk[index_id]],
               cache |-> CachePut(cache, index_id,
                            [index_id |-> index_id, serial |-> made + 1,
                             data |-> disk[index_id]]),
               made |-> made + 1, loaded |-> TRUE]
         ELSE [index |-> NoIndex, cache |-> cache, made |-> made,
               loaded |-> TRUE]
    ELSE [index |-> NoIndex, cache |-> cache, made |-> made,
          loaded |-> FALSE]

NoIndexCall ==
    [called |-> FALSE, index_id |-> None, force_reload |-> FALSE,
     was_cached |-> FALSE, was_persisted |-> FALSE, loaded |-> FALSE,
     result |-> NoIndex]

\* main.py: set_index_persist_dir(persist_dir), at startup.
SetIndexPersistDir ==
    /\ _index_persist_dir = None
    /\ _index_persist_dir' = "llamaindex"
    /\ UNCHANGED <<_index_cache, persisted, index_made, index_call>>
    /\ UNCHANGED <<envVars, embVars, tier_log, clsVars, svcVars,
                   notIdxVars>>

\* A call of get_vector_store_index.
GetVectorStoreIndex(index_id, force_reload, out) ==
    /\ index_made < MaxIndexes
    /\ LET r == get_vector_store_index(_index_cache, _index_persist_dir,
                    persisted, index_made, index_id, force_reload, out)
       IN  /\ _index_cache' = r.cache
           /\ index_made' = r.made
           /\ index_call' =
                [called |-> TRUE, index_id |-> index_id,
                 force_reload |-> force_reload,
                 was_cached |-> index_id \in DOMAIN _index_cache,
                 was_persisted |-> /\ _index_persist_dir # None
                                   /\ path_exists(persisted, index_id),
                 loaded |-> r.loaded, result |-> r.index]
    /\ UNCHANGED <<_index_persist_dir, persisted>>
    /\ UNCHANGED <<envVars, embVars, tier_log, clsVars, svcVars,
                   notIdxVars>>

\* update_vector_store_index(documents, index_id).  `out` is how the
\* load_from_disk of its get_vector_store_index call ends, `build` how
\* create_vector_store_index ends; an exception of the build leaves the
\* function after the get.
UpdateVectorStoreIndex(index_id, out, build) ==
    /\ index_made + 1 < MaxIndexes
    /\ LET r == get_vector_store_index(_index_cache, _index_persist_dir,
                    persisted, index_made, index_id, FALSE, out)
           index == [index_id |-> index_id, serial |-> r.made + 1,
                     data |-> r.made + 1]
       IN  IF build = "ok"
           THEN /\ _index_cache' = CachePut(r.cache, index_id, index)
                /\ index_made' = r.made + 1
                /\ persisted' =
                    IF _index_persist_dir # None
                    THEN CachePut(persisted, index_id, index.data)
                    ELSE persisted
           ELSE /\ _index_cache' = r.cache
                /\ index_made' = r.made
                /\ UNCHANGED persisted
    /\ UNCHANGED <<_index_persist_dir, index_call>>
    /\ UNCHANGED <<envVars, embVars, tier_log, clsVars, svcVars,
                   notIdxVars>>

----------------------------------------------------------------------------
(* The handles that hold a model id: llamaindex_service.py (get_llm,       *)
(* get_embed_model) and ollama_client.py (OllamaClient)                    *)

\* `_llm = None`, `_embed_model = None`: no handle yet.
NoLlm == [model |-> None]

\* OllamaClient.__init__: `self.model = settings.OLLAMA_MODEL`, run once,
\* when ollama_client.py is imported.
OllamaClient(cfg) == [model |-> cfg.OLLAMA_MODEL]

\* get_llm(): `if _llm is None: _llm = Ollama(model=settings.OLLAMA_MODEL)`
get_llm_fresh(llm, cfg) == [model |-> cfg.OLLAMA_MODEL]

get_llm(llm, cfg) ==
    IF llm = NoLlm THEN [model |-> cfg.OLLAMA_MODEL] ELSE llm

\* get_embed_model(): `if _embed_model is None: _embed_model =
\* HuggingFaceEmbedding(model_name=settings.EMBEDDING_MODEL)`
get_embed_model(embed_model, cfg) ==
    IF embed_model = NoLlm THEN [model |-> cfg.EMBEDDING_MODEL]
    ELSE embed_model

\* OllamaClient.generate: `model = model or self.model`
generate_model(client, model) ==
    IF Truthy(model) THEN model ELSE client.model

\* The calls below are logged in `op`, like those of the capability
\* modules: the name of the function and, as its result, the model id the
\* call was served with.
Served(name, model) == [NoOp EXCEPT !.name = name, !.result = model]

\* A request that uses the LlamaIndex LLM: get_llm().
GetLlm ==
    /\ _llm' = get_llm(_llm, settings)
    /\ op' = Served("get_llm", get_llm(_llm, settings).model)
    /\ UNCHANGED <<_embed_model, ollama_client>>
    /\ UNCHANGED <<_classifier_model, _classifier_tokenizer, _nlp_model,
                   _bert_ner_model, clsLoadFailed, bertLoadFailed>>
    /\ UNCHANGED <<envVars, embVars, tier_log, svcVars, notLlmVars>>

\* A request that uses the LlamaIndex embedder: get_embed_model().
GetEmbedModel ==
    /\ _embed_model' = get_embed_model(_embed_model, settings)
    /\ op' = Served("get_embed_model",
                    get_embed_model(_embed_model, settings).model)
    /\ UNCHANGED <<_llm, ollama_client>>
    /\ UNCHANGED <<_classifier_model, _classifier_tokenizer, _nlp_model,
                   _bert_ner_model, clsLoadFailed, bertLoadFailed>>
    /\ UNCHANGED <<envVars, embVars, tier_log, svcVars, notLlmVars>>

\* ollama_client.generate(prompt, model)
OllamaGenerate(model) ==
    /\ op' = Served("ollama_client.generate",
                    generate_model(ollama_client, model))
    /\ UNCHANGED <<_llm, _embed_model, ollama_client>>
    /\ UNCHANGED <<_classifier_model, _classifier_tokenizer, _nlp_model,
                   _bert_ner_model, clsLoadFailed, bertLoadFailed>>
    /\ UNCHANGED <<envVars, embVars, tier_log, svcVars, notLlmVars>>

\* embedding_service_v2.get_embedding_model(model_name), from its first
\* line to its return.
GetEmbeddingModel(model_name, usable, lo) ==
    LET r == run_get_embedding_model(_embedding_models, _device, created,
                default_name(model_name), usable, lo)
    IN  /\ _embedding_models' = r.cache
        /\ _device' = r.dev
        /\ created' = r.made
        /\ loadFallbackHappened' = (loadFallbackHappened \/ r.fellBack)
        /\ op' = Served("get_embedding_model",
                        IF r.pc = "got" THEN default_name(model_name)
                        ELSE "raised")
        /\ UNCHANGED <<tasks, running, cur, encFallbackHappened>>
        /\ UNCHANGED <<_llm, _embed_model, ollama_client>>
        /\ UNCHANGED <<_classifier_model, _classifier_tokenizer, _nlp_model,
                       _bert_ner_model, clsLoadFailed, bertLoadFailed>>
        /\ UNCHANGED <<envVars, tier_log, svcVars, notLlmVars>>

----------------------------------------------------------------------------
(* services/vision/ocr_service.py: the cached OCR reader                   *)

\* The language lists a caller can pass.
LanguageLists == {<<"en">>, <<"en", "hi">>, <<"hi">>}

\* `_ocr_reader = None`: no reader yet.  A reader is known by the
\* languages it was made for and its serial number.
NoReader == [languages |-> <<>>, serial |-> 0]

\* `if _ocr_reader is None:`
reader_missing_keyed(reader, languages) ==
    reader = NoReader \/ reader.languages # languages

reader_missing(reader, languages) == reader = NoReader

\* get_ocr_reader(languages).  `out` is how easyocr.Reader(...) ends; its
\* exception is logged and re-raised, before the global is assigned.
get_ocr_reader(reader, made, languages, out) ==
    IF ~reader_missing(reader, languages)
    THEN [reader |-> reader, made |-> made, attempts |-> 0,
          raised |-> FALSE]
    ELSE IF out = "ok"
    THEN [reader |-> [languages |-> languages, serial |-> made + 1],
          made |-> made + 1, attempts |-> 1, raised |-> FALSE]
    ELSE [reader |-> reader, made |-> made, attempts |-> 1, raised |-> TRUE]

\* The entry a get_ocr_reader call leaves in the log: who called, the
\* languages asked for, the cached reader before the call, the
\* easyocr.Reader constructions attempted, and the reader returned.
OcrEntry(via, languages, r) ==
    [via |-> via, languages |-> languages, before |-> _ocr_reader,
     attempts |-> r.attempts, raised |-> r.raised,
     reader |-> IF r.raised THEN NoReader ELSE r.reader]

\* A call of get_ocr_reader(languages).
GetOcrReader(languages, out) ==
    /\ LET r == get_ocr_reader(_ocr_reader, ocr_made, languages, out)
       IN  /\ _ocr_reader' = r.reader
           /\ ocr_made' = r.made
           /\ ocr_log' = Logged(ocr_log,
                                OcrEntry("get_ocr_reader", languages, r))
    /\ UNCHANGED <<envVars, embVars, tier_log, clsVars, svcVars,
                   notOcrVars>>

\* extract_text_from_image(file_path, languages): get_ocr_reader, then
\* reader.readtext, which reads the image and leaves the module state
\* alone whether it returns or raises.
ExtractTextFromImage(languages, out) ==
    /\ LET r == get_ocr_reader(_ocr_reader, ocr_made, languages, out)
       IN  /\ _ocr_reader' = r.reader
           /\ ocr_made' = r.made
           /\ ocr_log' = Logged(ocr_log,
                            OcrEntry("extract_text_from_image", languages, r))
    /\ UNCHANGED <<envVars, embVars, tier_log, clsVars, svcVars,
                   notOcrVars>>

----------------------------------------------------------------------------
(* Specifications *)

InitEnv ==
    /\ settings = DefaultSettings
    /\ cuda_available \in BOOLEAN
    /\ host_ram = 80

InitEmb ==
    /\ _embedding_models = [n \in {} |-> NoHandle]
    /\ _device = None
    /\ created = [n \in ModelNames |-> 0]
    /\ tasks = [p \in Tasks |-> IdleTask]
    /\ running = 0
    /\ cur = NoCall
    /\ encFallbackHappened = FALSE
    /\ loadFallbackHappened = FALSE

InitCls ==
    /\ _classifier_model = None
    /\ _classifier_tokenizer = None
    /\ _nlp_model = None
    /\ _bert_ner_model = None
    /\ op = NoOp
    /\ clsLoadFailed = FALSE
    /\ bertLoadFailed = FALSE

InitSvc ==
    /\ _model_manager = NoManager
    /\ mgr_log = <<>>
    /\ classification = NoClassification
    /\ ext = NoExt
    /\ daily_summary = NoDailySummary
    /\ summary = NoSummary

InitApi ==
    /\ http_response = NoResponse
    /\ _embedding_model = NoHandle
    /\ embedding_device = None
    /\ slot_made = 0
    /\ slot_log = <<>>
    /\ _index_cache = EmptyDict
    /\ _index_persist_dir = None
    /\ persisted = PersistedAtStart
    /\ index_made = 0
    /\ index_call = NoIndexCall
    /\ _llm = NoLlm
    /\ _embed_model = NoLlm
    /\ ollama_client = OllamaClient(settings)
    /\ _ocr_reader = NoReader
    /\ ocr_made = 0
    /\ ocr_log = <<>>

Init == InitEnv /\ InitEmb /\ InitCls /\ InitSvc /\ InitApi /\ tier_log = <<>>

\* The embedding service, one call after another.
NextEmb ==
    \/ \E text \in TextValues, model \in ModelNames \cup {None},
          tier \in TierArgs :
            GenerateEmbedding(text, model, tier)
    \/ \E texts \in TextLists, model \in ModelNames \cup {None},
          tier \in TierArgs :
            BatchGenerateEmbeddings(texts, model, tier)
    \/ \E usable \in BOOLEAN : EmbLookup(usable)
    \/ \E out \in Outcomes : EmbLoad(out)
    \/ \E out \in Outcomes : EmbLoadCpu(out)
    \/ \E usable \in BOOLEAN, out \in Outcomes : EmbEncode(usable, out)
    \/ \E out \in Outcomes : EmbEncodeCpu(out)

SpecEmb == Init /\ [][NextEmb]_vars

\* Concurrent requests for embedding models.
NextLoad ==
    \/ \E p \in Tasks, model \in ModelNames \cup {None} : Arrive(p, model)
    \/ \E p \in Tasks : Start(p)
    \/ \E p \in Tasks, usable \in BOOLEAN : Lookup(p, usable)
    \/ \E p \in Tasks, out \in Outcomes : Load(p, out)
    \/ \E p \in Tasks, out \in Outcomes : LoadCpu(p, out)
    \/ \E p \in Tasks : Respond(p)

SpecLoad == Init /\ [][NextLoad]_vars

\* The tier resolver, applied to one memory size after another.
NextTier ==
    \E ram \in RamValues, fails \in BOOLEAN : GetRecommendedTier(ram, fails)

SpecTier == Init /\ [][NextTier]_vars

\* The configured tier override: unset, a known tier, or a string that
\* names no tier.
TierOverrides == {None} \cup Tiers \cup {"BOGUS"}

\* A host below every threshold, one in the MID_RANGE band, one in the top
\* band.
HostRamSamples == {30, 100, 200}

InitCapabilities ==
    /\ settings \in {[DefaultSettings EXCEPT !.MODEL_TIER = t] :
                        t \in TierOverrides}
    /\ cuda_available \in BOOLEAN
    /\ host_ram \in HostRamSamples
    /\ InitEmb /\ InitCls /\ InitSvc /\ InitApi /\ tier_log = <<>>

\* The capability modules, one call after another.
NextCapabilities ==
    \/ \E fails \in BOOLEAN : ShouldUseMlClassifier(fails)
    \/ \E fails \in BOOLEAN, tok \in LoadResults, pipe \in LoadResults :
            LoadClassifierModel(fails, tok, pipe)
    \/ \E fails \in BOOLEAN, out \in LoadResults : GetNlpModel(fails, out)
    \/ \E fails \in BOOLEAN, out \in LoadResults : GetBertNerModel(fails, out)
    \/ \E fails \in BOOLEAN, usable \in BOOLEAN, lo \in [1..2 -> LoadResults] :
            GetEmbeddingModelForTier(None, fails, usable, lo)

SpecCapabilities == InitCapabilities /\ [][NextCapabilities]_vars

\* The model manager's API, one call after another, on a service started
\* with any tier override.
NextModels ==
    \/ \E llm_model \in LlmArgs, embedding_model \in EmbeddingArgs,
          nlp_model \in NlpArgs :
            UpdateModels(llm_model, embedding_model, nlp_model)
    \/ GetCurrentModels

InitModels ==
    /\ settings \in {[DefaultSettings EXCEPT !.MODEL_TIER = t] :
                        t \in TierOverrides}
    /\ cuda_available = FALSE
    /\ host_ram = 80
    /\ InitEmb /\ InitCls /\ InitSvc /\ InitApi /\ tier_log = <<>>

SpecModels == InitModels /\ [][NextModels]_vars

\* The activity classifier, one call after another, on a service started
\* with any tier override on any of the sample hosts.
InitClassify ==
    /\ settings \in {[DefaultSettings EXCEPT !.MODEL_TIER = t] :
                        t \in TierOverrides}
    /\ cuda_available = FALSE
    /\ host_ram \in HostRamSamples
    /\ InitEmb /\ InitCls /\ InitSvc /\ InitApi /\ tier_log = <<>>

NextClassify ==
    \/ \E fails1 \in BOOLEAN, fails2 \in BOOLEAN, tok \in LoadResults,
          pipe \in LoadResults, inf \in InferenceResults,
          label \in TopLabels, score \in TopScores :
            ClassifyActivityMl(fails1, fails2, tok, pipe, inf, label, score)
    \/ \E fails \in BOOLEAN, tok \in LoadResults, pipe \in LoadResults :
            LoadClassifierModel(fails, tok, pipe)

SpecClassify == InitClassify /\ [][NextClassify]_vars

\* Entity extraction, one call after another, on a service started with any
\* tier override on a host of the top band (whose probe, when it fails,
\* yields MID_RANGE).
InitEntities ==
    /\ settings \in {[DefaultSettings EXCEPT !.MODEL_TIER = t] :
                        t \in {None, "LOW_END", "HIGH_END"}}
    /\ cuda_available = FALSE
    /\ host_ram = 200
    /\ InitEmb /\ InitCls /\ InitSvc /\ InitApi /\ tier_log = <<>>

NextEntities ==
    \/ \E min_confidence \in MinConfidences, extract_types \in ExtractTypes :
            ExtractEntitiesEnhanced(min_confidence, extract_types)
    \/ \E fails \in BOOLEAN, out \in LoadResults, doc_out \in LoadResults,
          ents \in SpacyEntLists :
            ExtBase(fails, out, doc_out, ents)
    \/ \E fails \in BOOLEAN, out \in LoadResults, inf \in LoadResults,
          entities \in BertEntLists, matches \in SpecializedMatches :
            ExtEnhance(fails, out, inf, entities, matches)

SpecEntities == InitEntities /\ [][NextEntities]_vars

\* The daily summary, one call after another.
NextInsights ==
    \E activities_data \in ActivitiesData, response \in QueryResponses,
       out \in LoadResults, llm_response \in LlmResponses :
        GenerateDailySummaryAi(activities_data, response, out, llm_response)

SpecInsights == Init /\ [][NextInsights]_vars

\* The summarizer, one call after another.
NextSummarizer ==
    \E content_len \in ContentLens, max_length \in MaxLengths,
       llm \in LoadResults, parse \in LoadResults,
       parsed \in ParsedSummaries :
        SummarizeContent(content_len, max_length, llm, parse, parsed)

SpecSummarizer == Init /\ [][NextSummarizer]_vars

\* The endpoints, one request after another.
NextRoutes ==
    \/ \E request \in QueryRequests, out \in LoadResults : chat(request, out)
    \/ \E request \in QueryRequests, out \in LoadResults :
        rag_query(request, out)
    \/ \E request \in FileRequests, out \in LoadResults :
        analyze_image_endpoint(request, out)
    \/ \E request \in FileRequests, out \in LoadResults :
        extract_structured_endpoint(request, out)
    \/ \E request \in FileRequests, out \in LoadResults :
        extract_tables_endpoint(request, out)
    \/ \E insight_type \in InsightTypes, out \in LoadResults :
        generate_insights(insight_type, out)

SpecRoutes == Init /\ [][NextRoutes]_vars

\* The embedder of embedding.py, one call after another.
NextSlot ==
    \E model_name \in ModelNames \cup {None}, usable \in BOOLEAN,
       lo \in [1..2 -> LoadResults] :
        SlotGetEmbeddingModel(model_name, usable, lo)

SpecSlot == Init /\ [][NextSlot]_vars

\* The index cache of llamaindex_service.py, one call after another.
NextIndex ==
    \/ SetIndexPersistDir
    \/ \E index_id \in IndexIds, force_reload \in BOOLEAN,
          out \in LoadResults :
            GetVectorStoreIndex(index_id, force_reload, out)
    \/ \E index_id \in IndexIds, out \in LoadResults, build \in LoadResults :
            UpdateVectorStoreIndex(index_id, out, build)

SpecIndex == Init /\ [][NextIndex]_vars

\* Model updates among the requests that load and use the handles.
InitHandles ==
    /\ settings = DefaultSettings
    /\ cuda_available = FALSE
    /\ host_ram = 80
    /\ InitEmb /\ InitCls /\ InitSvc /\ InitApi /\ tier_log = <<>>

\* The /models/update requests made: one that names nothing, one that
\* names a new LLM, one that names a new model of each kind.
HandleUpdates ==
    {[llm_model |-> None, embedding_model |-> None, nlp_model |-> None],
     [llm_model |-> "mistral:7b", embedding_model |-> None,
      nlp_model |-> None],
     [llm_model |-> "mistral:7b", embedding_model |-> "all-mpnet-base-v2",
      nlp_model |-> "en_core_web_md"]}

NextHandles ==
    \/ \E u \in HandleUpdates :
            UpdateModels(u.llm_model, u.embedding_model, u.nlp_model)
    \/ GetCurrentModels
    \/ GetLlm
    \/ GetEmbedModel
    \/ \E model \in {None, "phi3:mini"} : OllamaGenerate(model)
    \/ \E fails \in BOOLEAN, out \in LoadResults : GetNlpModel(fails, out)
    \/ \E model_name \in ModelNames \cup {None}, usable \in BOOLEAN,
          lo \in [1..2 -> LoadResults] :
            GetEmbeddingModel(model_name, usable, lo)

SpecHandles == InitHandles /\ [][NextHandles]_vars

\* The OCR reader, one call after another.
NextOcr ==
    \/ \E languages \in LanguageLists, out \in LoadResults :
            GetOcrReader(languages, out)
    \/ \E languages \in LanguageLists, out \in LoadResults :
            ExtractTextFromImage(languages, out)

SpecOcr == Init /\ [][NextOcr]_vars

----------------------------------------------------------------------------
(* Claims *)

\* C1: single instance per key.  Whatever the number of requests that call
\* get_embedding_model for a model absent from the cache, at most one
\* SentenceTransformer object is ever constructed for that name, and every
\* caller that was given a handle was given that one object, the one the
\* cache holds.
C1_SingleInstancePerKey ==
    /\ \A n \in ModelNames : created[n] <= 1
    /\ \A p \in Tasks : tasks[p].pc = "got" =>
            /\ created[tasks[p].name] = 1
            /\ CacheHit(_embedding_models, tasks[p].name)
            /\ tasks[p].handle = _embedding_models[tasks[p].name]
    /\ \A p, q \in Tasks :
            (tasks[p].pc = "got" /\ tasks[q].pc = "got"
                /\ tasks[p].name = tasks[q].name)
            => tasks[p].handle = tasks[q].handle

\* C1 witness: two requests for the same model, both accepted while it was
\* uncached, one accepted while the other was in flight, have both been
\* given the same handle.
C1_Witness ==
    \E p, q \in Tasks :
        /\ p # q
        /\ tasks[p].pc = "got" /\ tasks[q].pc = "got"
        /\ tasks[p].name = tasks[q].name
        /\ tasks[p].uncached /\ tasks[q].uncached
        /\ q \in tasks[p].overlap
        /\ tasks[p].handle = tasks[q].handle
        /\ tasks[p].handle # NoHandle

\* C2 (as claimed): the device fallback of encode is sticky.  A call that
\* begins after some earlier call retried encode on the CPU makes no encode
\* attempt on the accelerator, and from the retry on get_device() does not
\* return 'cuda'.
C2_EncodeFallbackSticky ==
    /\ cur.afterEncFallback =>
            \A i \in DOMAIN cur.encs : cur.encs[i].dev # "cuda"
    /\ encFallbackHappened => get_device(_device, TRUE) # "cuda"

\* C3 (as claimed): once a model was loaded on the CPU because loading it
\* on the accelerator failed, the module-level device is 'cpu' and no later
\* load attempts the accelerator.
C3_LoadFallbackDegradesDevice ==
    /\ cur.afterLoadFallback =>
            \A i \in DOMAIN cur.loads : cur.loads[i].dev # "cuda"
    /\ loadFallbackHappened => _device = "cpu"

C5_OtherLoadErrorNotRetried ==
    (Len(cur.loads) >= 1 /\ cur.loads[1].out = "other_error")
    => (Len(cur.loads) = 1 /\ cur.pc = "raised")

\* C6 (as claimed): a failed model load is permanent.  A call of
\* load_classifier_model or get_bert_ner_model that begins after a load of
\* its model has failed attempts no instantiation.
C6_FailedLoadIsPermanent ==
    (op.name \in {"load_classifier_model", "get_bert_ner_model"}
        /\ op.afterFailure)
    => op.attempts = 0

\* C7 (as claimed): no torn load state.  The cached classifier model and
\* the cached classifier tokenizer are both set or both unset.
C7_ClassifierLoadNotTorn ==
    (_classifier_model = None) <=> (_classifier_tokenizer = None)

\* The tier returned for a total memory meets its own threshold.
MeetsOwnThreshold(e) == MinRam(e.tier) <= e.total

\* No tier ranked above the one returned has its threshold met.
NoHigherTierMet(e) ==
    \A t \in Tiers : TierRank[t] > TierRank[e.tier] => MinRam(t) > e.total

\* C8 (as claimed): for every total memory, the tier get_recommended_tier
\* returns has min_ram_gb <= total memory and no higher-ranked tier has.
C8_HighestTierMet ==
    \A i \in DOMAIN tier_log :
        MeetsOwnThreshold(tier_log[i]) /\ NoHigherTierMet(tier_log[i])

\* C8 (amended): for every total memory, no tier ranked above the returned
\* one has min_ram_gb <= total memory, and the returned tier has
\* min_ram_gb <= total memory unless the total memory is below the lowest
\* threshold (LOW_END's), where LOW_END is returned.
C8_HighestTierMetOrFloor ==
    \A i \in DOMAIN tier_log :
        /\ NoHigherTierMet(tier_log[i])
        /\ IF tier_log[i].total >= MinRam("LOW_END")
           THEN MeetsOwnThreshold(tier_log[i])
           ELSE tier_log[i].tier = "LOW_END"

\* C8 witness: the resolver has answered for a host below the lowest
\* threshold and for a host at the highest threshold.
C8_Witness ==
    /\ Len(tier_log) = 2
    /\ ~tier_log[1].failed /\ tier_log[1].total < MinRam("LOW_END")
    /\ tier_log[1].tier = "LOW_END"
    /\ ~tier_log[2].failed /\ tier_log[2].total = MinRam("PREMIUM")
    /\ tier_log[2].tier = "PREMIUM"

\* C9: tier monotonicity.  Of two results of get_recommended_tier, the one
\* for the larger total memory is never ranked below the other.
C9_TierMonotone ==
    \A i, j \in DOMAIN tier_log :
        tier_log[i].total < tier_log[j].total
        => TierRank[tier_log[i].tier] <= TierRank[tier_log[j].tier]

\* C9 witness: two results for different memory sizes and different tiers,
\* the larger memory first.
C9_Witness ==
    /\ Len(tier_log) = 2
    /\ ~tier_log[1].failed /\ ~tier_log[2].failed
    /\ tier_log[1].total > tier_log[2].total
    /\ TierRank[tier_log[1].tier] > TierRank[tier_log[2].tier]

\* C10: override precedence.  When settings.MODEL_TIER names a known tier,
\* every capability module that resolves its tier resolves exactly that
\* tier and calls detect_system_resources not once while doing so.
C10_OverridePrecedence ==
    (settings.MODEL_TIER \in Tiers /\ op.resolved)
    => (op.tier = settings.MODEL_TIER /\ op.probes = 0)

\* C10 witness: on a host whose memory is below every threshold, with the
\* override HIGH_END, get_bert_ner_model resolved HIGH_END and loaded the
\* NER model.
C10_Witness ==
    /\ settings.MODEL_TIER = "HIGH_END"
    /\ host_ram < MinRam("LOW_END")
    /\ op.name = "get_bert_ner_model"
    /\ op.resolved /\ op.tier = "HIGH_END" /\ op.probes = 0
    /\ op.result = "model"

\* C11: probe failure defaults safely.  With no override set, a call of
\* get_recommended_tier whose host resource query raised returned a tier
\* (no exception left it), and that tier is MID_RANGE, the second lowest.
C11_ProbeFailureDefault ==
    \A i \in DOMAIN tier_log :
        tier_log[i].failed =>
            /\ tier_log[i].tier = "MID_RANGE"
            /\ TierRank[tier_log[i].tier] = 2

\* C11 witness: with no override, the resolver answered MID_RANGE after a
\* failed probe, and PREMIUM for a host whose probe succeeded.
C11_Witness ==
    /\ settings.MODEL_TIER = None
    /\ Len(tier_log) = 2
    /\ tier_log[1].failed /\ tier_log[1].tier = "MID_RANGE"
    /\ ~tier_log[2].failed /\ tier_log[2].tier = "PREMIUM"

\* C12 (as claimed): explicit model beats tier.  A generate_embedding or
\* batch_generate_embeddings call that carries both a model id and a tier
\* asks the cache for the model it was given, and every model it
\* instantiates or encodes with is that model.
C12_ExplicitModelBeatsTier ==
    (cur.pc # "none" /\ cur.model # None /\ cur.tier # None)
    => /\ cur.name = cur.model
       /\ cur.handle # NoHandle => cur.handle.name = cur.model

\* C13: batch order preservation.  A batch_generate_embeddings call that
\* returned has returned exactly one result per input text, and its i-th
\* result holds the embedding, by the model the call used, of the i-th
\* input text; also when the result came from the CPU retry.
C13_BatchOrderPreserved ==
    (cur.kind = "batch" /\ cur.pc = "done")
    => /\ Len(cur.results) = Len(cur.texts)
       /\ \A i \in 1..Len(cur.texts) :
            cur.results[i].embedding =
                [model |-> cur.handle.name, text |-> cur.texts[i]]

\* C13 witness: a batch call over two different texts whose encode failed
\* on the accelerator, was retried on the CPU and returned two results.
C13_Witness ==
    /\ cur.kind = "batch" /\ cur.pc = "done"
    /\ Len(cur.texts) = 2 /\ cur.texts[1] # cur.texts[2]
    /\ Len(cur.encs) = 2 /\ cur.encs[1].dev = "cuda"
    /\ Len(cur.results) = 2
    /\ cur.results[1].embedding.text = cur.texts[1]
    /\ cur.results[2].embedding.text = cur.texts[2]

\* C14: batching.  A batch call that met no device failure and returned
\* has invoked encode exactly once, on the whole list of its texts.
C14_OneBatchedInvocation ==
    (cur.kind = "batch" /\ cur.pc = "done"
        /\ \A i \in DOMAIN cur.encs : ~IsCudaError(cur.encs[i].out))
    => /\ Len(cur.encs) = 1
       /\ cur.encs[1].input = cur.texts

\* C14 witness: a batch call over two texts that returned after one encode
\* invocation, which was given both texts.
C14_Witness ==
    /\ cur.kind = "batch" /\ cur.pc = "done"
    /\ Len(cur.texts) = 2
    /\ Len(cur.encs) = 1 /\ cur.encs[1].out = "ok"
    /\ Len(cur.encs[1].input) = 2


\* C15: model-update round trip.  When update_models(llm_model=X), X
\* non-empty and the other two arguments omitted, is followed by
\* get_current_models(), the latter reports llm_model = X and reports
\* embedding_model, nlp_model and tier as they were before the update.
C15_UpdateRoundTrip ==
    (/\ Len(mgr_log) = 2
     /\ mgr_log[1].name = "update_models"
     /\ mgr_log[1].llm_model \notin {None, ""}
     /\ mgr_log[1].embedding_model = None /\ mgr_log[1].nlp_model = None
     /\ mgr_log[2].name = "get_current_models")
    => /\ mgr_log[2].result.llm_model = mgr_log[1].llm_model
       /\ mgr_log[2].result.embedding_model = mgr_log[1].before.embedding_model
       /\ mgr_log[2].result.nlp_model = mgr_log[1].before.nlp_model
       /\ mgr_log[2].result.tier = mgr_log[1].before.tier

\* C15 witness: on a service whose embedding and NLP models were changed
\* before, update_models(llm_model="mistral:7b") changed the LLM and was
\* followed by get_current_models().
C15_Witness ==
    /\ Len(mgr_log) = 2
    /\ mgr_log[1].name = "update_models"
    /\ mgr_log[1].llm_model = "mistral:7b"
    /\ mgr_log[1].embedding_model = None /\ mgr_log[1].nlp_model = None
    /\ mgr_log[1].before.llm_model # "mistral:7b"
    /\ mgr_log[1].before.embedding_model # DefaultSettings.EMBEDDING_MODEL
    /\ mgr_log[1].before.nlp_model # DefaultSettings.SPACY_MODEL
    /\ mgr_log[2].name = "get_current_models"
    /\ mgr_log[2].result.llm_model = "mistral:7b"


\* C16: classifier tier gate.  Whenever the tier that classify_activity_ml
\* resolves is not HIGH_END or PREMIUM (the tier of its gate, or the tier
\* load_classifier_model resolves during the call), the call returns
\* activity_type 'other' with confidence 0.5 and a reason string, and
\* attempts no tokenizer or classifier instantiation.
C16_ClassifierTierGate ==
    (/\ op.name = "classify_activity_ml"
     /\ \/ classification.tier \notin {"HIGH_END", "PREMIUM"}
        \/ classification.load_tier \notin {None, "HIGH_END", "PREMIUM"})
    => /\ classification.activity_type = "other"
       /\ classification.confidence = 50
       /\ classification.reason \notin {None, ""}
       /\ classification.attempts = 0
       /\ op.attempts = 0

\* C16 witness: on a host whose memory puts it in the top tier, with the
\* classifier already loaded by an earlier call, a call whose probe failed
\* resolved MID_RANGE and returned the fixed answer.
C16_Witness ==
    /\ op.name = "classify_activity_ml"
    /\ settings.MODEL_TIER = None
    /\ host_ram >= MinRam("PREMIUM")
    /\ _classifier_model # None
    /\ classification.tier = "MID_RANGE"
    /\ classification.activity_type = "other"
    /\ classification.confidence = 50
    /\ classification.attempts = 0


\* The concepts of `base` are all in `result`, in their order, at its front.
KeepsBase(base, result) ==
    /\ Len(result) >= Len(base)
    /\ \A i \in DOMAIN base : result[i] = base[i]

\* C17: graceful degradation of entity extraction.  A BERT instantiation
\* or inference happens only in a call whose get_bert_ner_model resolved
\* HIGH_END or PREMIUM; and a call whose BERT model could not be loaded, or
\* whose BERT inference failed, has returned (it did not raise) a result
\* that holds every concept of its spaCy pass.
C17_GracefulEntityDegradation ==
    ext.pc = "done" =>
        /\ (ext.bert_attempts > 0 \/ ext.bert_ran)
            => ext.bert_tier \in {"HIGH_END", "PREMIUM"}
        /\ (ext.bert_load_failed \/ (ext.bert_ran /\ ext.bert_out # "ok"))
            => KeepsBase(ext.base, ext.result)

\* C17 witness: a call whose spaCy pass found two different entities and
\* whose BERT inference failed returned both.
C17_Witness ==
    /\ ext.pc = "done"
    /\ ext.bert_ran /\ ext.bert_out # "ok"
    /\ Len(ext.base) = 2 /\ ext.base[1] # ext.base[2]
    /\ Len(ext.result) >= 2
    /\ ext.result[1] = ext.base[1] /\ ext.result[2] = ext.base[2]

\* C18: deduplication.  No concept the BERT loop appended has the surface
\* text and the mapped label of a concept the spaCy pass produced.
C18_NoEnhancementDuplicate ==
    ext.pc = "done" =>
        \A i \in DOMAIN ext.added : \A j \in DOMAIN ext.base :
            ~(/\ ext.added[i].text = ext.base[j].text
              /\ ext.added[i].label = ext.base[j].label)

\* C18 witness: the BERT pass found an entity the spaCy pass had produced
\* and another one; only the other one was appended.
C18_Witness ==
    /\ ext.pc = "done"
    /\ ext.bert_ran /\ ext.bert_out = "ok"
    /\ ext.bert_dup_seen
    /\ Len(ext.base) = 1
    /\ Len(ext.added) = 1
    /\ Len(ext.result) = 2


\* Some part of the text is a JSON object that json.loads accepts.
ContainsJsonObject(text) ==
    \E i \in DOMAIN text, j \in DOMAIN text :
        i <= j /\ json_loads(SubSeq(text, i, j)) # "error"

\* C19 (as claimed): structured-insight fallback.  When the LLM response
\* given to generate_daily_summary_ai contains no JSON object that can be
\* parsed, the dict returned has the raw LLM response as its summary and
\* empty activities, concepts_learned and insights.
C19_InsightFallback ==
    (daily_summary.called /\ daily_summary.llm_ok
        /\ ~ContainsJsonObject(daily_summary.llm_response))
    => /\ daily_summary.result.summary = daily_summary.llm_response
       /\ daily_summary.result.activities = <<>>
       /\ daily_summary.result.concepts_learned = <<>>
       /\ daily_summary.result.insights = <<>>


\* C20 (as claimed): summarizer degradation.  A summarize_content call
\* whose LLM call or parse failed has returned a response whose summary is
\* the content cut to at most max_length characters, followed by an
\* ellipsis (three dots) exactly when it was cut, with no key points,
\* complexity 'intermediate' and sentiment 0.0.
C20_SummarizerFallback ==
    (summary.called /\ summary.failed)
    => /\ ~summary.result.from_llm
       /\ summary.result.summary.chars <= summary.max_length
       /\ summary.result.summary.chars <= summary.content_len
       /\ summary.result.summary.dots =
            IF summary.result.summary.chars < summary.content_len
            THEN 3 ELSE 0
       /\ summary.result.key_points = <<>>
       /\ summary.result.complexity = "intermediate"
       /\ summary.result.sentiment = 0


\* C21 (as claimed): status-code contract.  A request that lacks a
\* required field (no query, no file_path, an unknown insight_type) is
\* answered with a 4xx status and a detail message; a 5xx answers only a
\* request that lacked nothing.
C21_StatusCodeContract ==
    /\ (http_response.endpoint # None /\ http_response.missing)
        => /\ http_response.status_code \in 400..499
           /\ http_response.detail # None
    /\ (/\ http_response.endpoint # None
        /\ http_response.status_code \in 500..599)
        => ~http_response.missing


\* C22 (as claimed): non-stalling model invocations.  While one request is
\* inside a blocking model call (here the load of an embedding model), the
\* handler of another, pending request can be started: the model call does
\* not hold the event loop.
C22_ModelCallDoesNotStall ==
    \A p \in Tasks, q \in Tasks :
        (/\ p # q
         /\ tasks[p].pc \in {"load", "load_cpu"}
         /\ tasks[q].pc = "pending")
        => ENABLED Start(q)


\* C23: transient failures do not mutate shared state.  When the encode of
\* a generate_embedding or batch_generate_embeddings call ends with an
\* error that is not device-class, the call raises at once, with no retry
\* on the CPU, and that step leaves the model cache, the objects
\* constructed and the module-level device as they were.
C23_TransientFailureFrame ==
    [][(/\ cur.pc = "encode"
        /\ cur'.encs # cur.encs
        /\ cur'.encs[Len(cur'.encs)].out = "other_error")
       => (/\ cur'.pc = "raised"
           /\ Len(cur'.encs) = 1
           /\ _embedding_models' = _embedding_models
           /\ created' = created
           /\ _device' = _device)]_vars

\* A batch call on a CUDA device has raised after one encode that ended
\* with a non-device error.
C23_Witness ==
    /\ cur.pc = "raised"
    /\ cur.kind = "batch"
    /\ Len(cur.encs) = 1
    /\ cur.encs[1].out = "other_error"
    /\ cur.encs[1].dev = "cuda"
    /\ Len(cur.encs[1].input) = 2
    /\ _device = "cuda"
    /\ CacheHit(_embedding_models, cur.name)


\* C24 (as claimed): lazy load and reuse in the single-slot embedder.  A
\* get_embedding_model call of embedding.py instantiates a model only when
\* the slot was empty or held a model of another name, and of two
\* consecutive calls with the same name that both returned, the second
\* instantiated nothing and returned the handle of the first.
C24_SlotLazyReuse ==
    /\ \A i \in DOMAIN slot_log :
        slot_log[i].constructed > 0
        => \/ slot_log[i].before = NoHandle
           \/ slot_log[i].before.name # slot_log[i].name
    /\ (/\ Len(slot_log) = 2
        /\ slot_log[1].name = slot_log[2].name
        /\ ~slot_log[1].raised /\ ~slot_log[2].raised)
        => /\ slot_log[2].constructed = 0
           /\ slot_log[2].handle = slot_log[1].handle


\* C25 (as claimed): forced index reload.  A get_vector_store_index call
\* with force_reload=True made while a persisted index of its index_id was
\* in the persist directory has called load_from_disk, and, when the load
\* succeeded, has returned the index loaded and left it in the cache.
C25_ForcedIndexReload ==
    (/\ index_call.called
     /\ index_call.force_reload
     /\ index_call.was_persisted)
    => /\ index_call.loaded
       /\ index_call.result # NoIndex
            => /\ index_call.index_id \in DOMAIN _index_cache
               /\ _index_cache[index_call.index_id] = index_call.result


\* C26 (as claimed): confidence threshold.  Every concept an
\* extract_entities_enhanced call has returned has a confidence of at
\* least the min_confidence of the call.
C26_ConfidenceThreshold ==
    ext.pc = "done" =>
        \A i \in DOMAIN ext.result :
            ext.result[i].confidence >= ext.min_confidence

\* C27 (as claimed): type filter.  When extract_types is not empty, every
\* concept an extract_entities_enhanced call has returned has a label that
\* is a member of extract_types, and the call skipped no entity of a type
\* extract_types names.
C27_TypeFilter ==
    (ext.pc = "done" /\ ext.extract_types # {}) =>
        /\ \A i \in DOMAIN ext.result :
                ext.result[i].label \in ext.extract_types
        /\ ~ext.dropped_named


\* C28: unreachable tier.  No get_recommended_tier call, whatever the
\* total memory, has returned HIGH_END: the result is LOW_END, MID_RANGE or
\* PREMIUM, and a total that meets HIGH_END's min_ram_gb meets PREMIUM's
\* (the two are equal), which is tested first.
C28_HighEndUnreachable ==
    \A i \in DOMAIN tier_log :
        /\ tier_log[i].tier # "HIGH_END"
        /\ tier_log[i].tier \in {"LOW_END", "MID_RANGE", "PREMIUM"}
        /\ tier_log[i].total >= MinRam("HIGH_END")
            => tier_log[i].tier = "PREMIUM"

\* C28 witness: a host with exactly HIGH_END's min_ram_gb got PREMIUM, and
\* a host one tenth of a GB below it got MID_RANGE.
C28_Witness ==
    /\ Len(tier_log) = 2
    /\ ~tier_log[1].failed /\ ~tier_log[2].failed
    /\ tier_log[1].total = MinRam("HIGH_END")
    /\ tier_log[1].tier = "PREMIUM"
    /\ tier_log[2].total = MinRam("HIGH_END") - 1
    /\ tier_log[2].tier = "MID_RANGE"


\* The handles loaded: the embedding model cache, the spaCy pipeline, the
\* LlamaIndex LLM and embedder, the Ollama client.
LoadedHandles ==
    <<_embedding_models, _nlp_model, _llm, _embed_model, ollama_client>>

\* C29: update_models changes only the model-id settings.  A step that
\* logs an update_models call leaves every loaded handle as it was; and a
\* step that serves a call through a handle that was loaded before it
\* (the LlamaIndex LLM or embedder, the spaCy pipeline, an entry of the
\* embedding cache, the Ollama client's default) serves it with the model
\* id that handle was loaded with and leaves the handle as it was,
\* whatever the settings say.
C29_UpdateModelsFrame ==
    [][/\ (/\ mgr_log' # mgr_log
           /\ mgr_log'[Len(mgr_log')].name = "update_models")
          => LoadedHandles' = LoadedHandles
       /\ (op'.name = "get_llm" /\ _llm # NoLlm)
          => (op'.result = _llm.model /\ _llm' = _llm)
       /\ (op'.name = "get_embed_model" /\ _embed_model # NoLlm)
          => (/\ op'.result = _embed_model.model
              /\ _embed_model' = _embed_model)
       /\ (_nlp_model # None => _nlp_model' = _nlp_model)
       /\ \A n \in DOMAIN _embedding_models :
            /\ n \in DOMAIN _embedding_models'
            /\ _embedding_models'[n] = _embedding_models[n]
       /\ ollama_client' = ollama_client]_vars

\* C29 witness: the settings were updated, get_current_models has reported
\* the new LLM id, and the call served last went through the LlamaIndex
\* LLM loaded before the update, with the old id; the spaCy pipeline and
\* the embedding model loaded before it are still the cached ones.
C29_Witness ==
    /\ Len(mgr_log) = 2
    /\ mgr_log[1].name = "update_models"
    /\ mgr_log[1].llm_model = "mistral:7b"
    /\ mgr_log[1].before.llm_model = "llama3.2:1b"
    /\ mgr_log[2].name = "get_current_models"
    /\ mgr_log[2].result.llm_model = "mistral:7b"
    /\ settings.OLLAMA_MODEL = "mistral:7b"
    /\ op.name = "get_llm"
    /\ op.result = "llama3.2:1b"
    /\ _llm.model = "llama3.2:1b"
    /\ ollama_client.model = "llama3.2:1b"
    /\ _nlp_model = "en_core_web_sm"
    /\ "all-MiniLM-L6-v2" \in DOMAIN _embedding_models


\* C30: the OCR reader is cached without a key.  A get_ocr_reader call made
\* when a reader is cached returns that reader and constructs none,
\* whatever languages it asks for; a call whose construction failed leaves
\* the cache empty, and the call after it attempts the construction again.
C30_OcrReaderUnkeyed ==
    /\ \A i \in DOMAIN ocr_log :
        /\ ocr_log[i].before # NoReader
            => /\ ocr_log[i].attempts = 0
               /\ ~ocr_log[i].raised
               /\ ocr_log[i].reader = ocr_log[i].before
        /\ ocr_log[i].raised => ocr_log[i].before = NoReader
    /\ (ocr_log # <<>> /\ ocr_log[Len(ocr_log)].raised)
        => _ocr_reader = NoReader
    /\ (Len(ocr_log) = 2 /\ ocr_log[1].raised)
        => ocr_log[2].attempts = 1
    /\ ocr_made <= 1

\* C30 witness: a call for <<"en">> made the reader, and the next call,
\* for <<"en", "hi">>, got that reader.
C30_Witness ==
    /\ Len(ocr_log) = 2
    /\ ocr_log[1].before = NoReader
    /\ ocr_log[1].attempts = 1 /\ ~ocr_log[1].raised
    /\ ocr_log[1].languages = <<"en">>
    /\ ocr_log[2].languages = <<"en", "hi">>
    /\ ocr_log[2].attempts = 0
    /\ ocr_log[2].reader = ocr_log[1].reader
    /\ ocr_log[2].reader.languages = <<"en">>
    /\ _ocr_reader = ocr_log[1].reader

====
